---------------------------- MODULE Spec2Model ----------------------------
(***************************************************************************)
(* Admin portal of the flower-order business: the Orders view (filter,    *)
(* sort, paginate), the Customer Emails aggregation and the Dashboard      *)
(* aggregation, each a React component rendering a snapshot of the         *)
(* flower_orders table fetched through react-query.                        *)
(*                                                                         *)
(* Text values (names, e-mails, phone numbers, dates, timestamps) are      *)
(* sequences of one-character strings, so that toLowerCase, includes and   *)
(* the string comparison operators are computed character by character.    *)
(***************************************************************************)
EXTENDS Integers, Sequences, FiniteSets, TLC

VARIABLES
    store,         \* rows of public.flower_orders (a set of order records)
    view,          \* the page the router has mounted in the layout's Outlet
    \* ---- Orders view (src/unnamed/part_001, lines 393-698)
    orders,        \* data of useQuery(["admin-orders"]); [] until fetched
    search,        \* useState("")
    statusFilter,  \* useState("all")
    dateFilter,    \* useState("")
    sortField,     \* useState("created_at")
    sortDir,       \* useState("desc")
    page,          \* useState(0)
    filtered,      \* the array built by the last render (filter, then sort)
    totalPages,    \* Math.ceil(filtered.length / PAGE_SIZE) of the last render
    paginated,     \* filtered.slice(...) of the last render
    dialog,        \* id of the row whose delete AlertDialog is open, 0 if none
    ordersInvalidated, \* ["admin-orders"] was invalidated and not fetched since
    \* ---- Customer Emails view
    emailOrders,   \* data of useQuery(["all-orders-emails"])
    custSearch,    \* useState("")
    minOrders,     \* useState("all")
    dateFrom,      \* useState("")
    dateTo,        \* useState("")
    customers,     \* rows of src/pages/admin/CustomerEmails.tsx
    custFiltered,  \* customers.filter(...) of that component
    customersDummy,    \* rows of the variant that merges DUMMY_CUSTOMERS
    custFilteredDummy, \* customers.filter(...) of that variant
    \* ---- Dashboard view
    dashOrders,    \* data of useQuery(["all-orders-dashboard"])
    now,           \* the instant new Date() returns, seconds since 2026-01-01T00:00:00Z
    tz,            \* the viewer's offset from UTC, in seconds
    dashboard,     \* what the last Dashboard render computed
    renders,       \* re-renders of the mounted view since its inputs last changed
    \* ---- AdminLayout (src/components/AdminLayout.tsx)
    loading,       \* useAuth().loading
    user,          \* useAuth().user: the signed-in identity, "" if none
    isAdmin,       \* useAuth().isAdmin
    layout,        \* what AdminLayout last returned, "unmounted" on the login route
    route,         \* the location of the router
    searchParams,  \* useSearchParams(): status and pickupDate of the URL's query
    loginForm,     \* error, loading and isSignup of AdminLogin (useState hooks)
    authCalls,     \* signUp and signIn calls of handleSubmit not yet answered
    authAnswer,    \* the last answer a call of handleSubmit received
    pendingCount,  \* data of useQuery(["pending-orders-count"])
    pendingMatched, \* ids of the rows the last count query matched at the backend
    badgeInvalidated, \* ["pending-orders-count"] was invalidated and not fetched since
    \* ---- Mutations of the Orders view
    requests,      \* update and delete requests sent and not yet answered
    settled,       \* the last answer a mutation of this session received
    toast,         \* the text of the last toast shown
    document,      \* the last document, file or clipboard text an export produced
    \* ---- Backend and the other admin session
    user_roles,    \* rows of public.user_roles
    response,      \* the last answer of the backend to a call on flower_orders
    peerOrders     \* the order snapshot of another admin session

ordersVars == <<orders, search, statusFilter, dateFilter, sortField, sortDir,
                page, filtered, totalPages, paginated, dialog, ordersInvalidated>>
emailVars  == <<emailOrders, custSearch, minOrders, dateFrom, dateTo,
                customers, custFiltered, customersDummy, custFilteredDummy>>
dashVars   == <<dashOrders, now, tz, dashboard>>
formVars   == <<loginForm, authCalls, authAnswer>>
authVars   == <<loading, user, isAdmin, layout, route, searchParams, formVars>>
badgeVars  == <<pendingCount, pendingMatched, badgeInvalidated>>
writeVars  == <<requests, settled, toast, document>>
backendVars == <<user_roles, response, peerOrders>>
restVars   == <<authVars, badgeVars, writeVars, backendVars>>
vars == <<store, view, ordersVars, emailVars, dashVars, renders, restVars>>

-----------------------------------------------------------------------------
(* Bounds of the model. *)

\* Size of the largest generated table (three pages of the Orders view).
MaxOrders == 21

PAGE_SIZE == 10

\* A view is re-rendered at most this many times on unchanged inputs.
MaxRenders == 2

\* Mutation requests that are sent and not yet answered.
MaxInFlight == 1

-----------------------------------------------------------------------------
(* Text: JavaScript strings as sequences of UTF-16 code units. *)

Lower == <<"a","b","c","d","e","f","g","h","i","j","k","l","m",
           "n","o","p","q","r","s","t","u","v","w","x","y","z">>
Upper == <<"A","B","C","D","E","F","G","H","I","J","K","L","M",
           "N","O","P","Q","R","S","T","U","V","W","X","Y","Z">>
Digits == <<"0","1","2","3","4","5","6","7","8","9">>

\* The characters the model uses, in increasing code-unit order.
Ascii == <<" ", "\"", "+", ",", "-", ".">> \o Digits \o <<":", "@">> \o Upper \o Lower

CharCode(c) == CHOOSE i \in 1..Len(Ascii) : Ascii[i] = c

LowerChar(c) ==
    IF \E i \in 1..Len(Upper) : Upper[i] = c
    THEN Lower[CHOOSE i \in 1..Len(Upper) : Upper[i] = c]
    ELSE c

\* String.prototype.toLowerCase
toLowerCase(s) == [i \in 1..Len(s) |-> LowerChar(s[i])]

\* String.prototype.includes
includes(s, q) ==
    \E i \in 0..(Len(s) - Len(q)) : SubSeq(s, i + 1, i + Len(q)) = q

\* a < b on two strings: the first differing code unit decides, a proper
\* prefix is smaller.
RECURSIVE StrLess(_, _)
StrLess(a, b) ==
    IF b = << >> THEN FALSE
    ELSE IF a = << >> THEN TRUE
    ELSE IF Head(a) = Head(b) THEN StrLess(Tail(a), Tail(b))
    ELSE CharCode(Head(a)) < CharCode(Head(b))


-----------------------------------------------------------------------------
(* Dates and instants.  The model's calendar is the year 2026; an instant  *)
(* is a number of seconds since 2026-01-01T00:00:00Z (Date.getTime() is    *)
(* the same instant in milliseconds since 1970).                           *)

SecondsPerDay == 86400

MonthDays == <<31, 28, 31, 30, 31, 30, 31, 31, 30, 31, 30, 31>>

RECURSIVE DaysBefore(_)
DaysBefore(m) == IF m = 1 THEN 0 ELSE DaysBefore(m - 1) + MonthDays[m - 1]

Digit(c) == (CHOOSE i \in 1..10 : Digits[i] = c) - 1

\* The two-digit number at positions i, i+1 of s.
Num2(s, i) == Digit(s[i]) * 10 + Digit(s[i + 1])

TwoDigits(n) == <<Digits[(n \div 10) + 1], Digits[(n % 10) + 1]>>

\* The calendar day (0 = 2026-01-01) a "2026-MM-dd..." text names.
DateDay(s) == DaysBefore(Num2(s, 6)) + Num2(s, 9) - 1

\* new Date(s).getTime(): a date-only text is midnight UTC of that day, a
\* timestamp text "yyyy-MM-ddTHH:mm:ss+00:00" (or ...Z) is that UTC instant.
getTime(s) ==
    DateDay(s) * SecondsPerDay
      + (IF Len(s) > 10
         THEN Num2(s, 12) * 3600 + Num2(s, 15) * 60 + Num2(s, 18)
         ELSE 0)

MonthOfDay(d) ==
    CHOOSE m \in 1..12 : DaysBefore(m) <= d /\ d < DaysBefore(m) + MonthDays[m]

\* The text "2026-MM-dd" of calendar day d.
DayText(d) ==
    <<"2", "0", "2", "6", "-">> \o TwoDigits(MonthOfDay(d)) \o <<"-">>
      \o TwoDigits(d - DaysBefore(MonthOfDay(d)) + 1)

\* The calendar day of instant t for a viewer at offset zone from UTC.
LocalDay(t, zone) == (t + zone) \div SecondsPerDay

\* date-fns format(date, "yyyy-MM-dd"): the viewer's local calendar date.
format(t, zone) == DayText(LocalDay(t, zone))

\* date-fns subDays(date, n): the same local time n calendar days earlier.
subDays(t, n) == t - n * SecondsPerDay

\* The text the backend serialises a timestamptz value as (UTC session).
IsoText(t) ==
    DayText(t \div SecondsPerDay) \o <<"T">>
      \o TwoDigits((t % SecondsPerDay) \div 3600) \o <<":">>
      \o TwoDigits((t % 3600) \div 60) \o <<":">>
      \o TwoDigits(t % 60) \o <<"+", "0", "0", ":", "0", "0">>

-----------------------------------------------------------------------------
(* The flower_orders table. *)

OrderStatus == {"Pending", "Completed", "Cancelled", "Picked Up"}
TimeSlot == {"Morning", "Evening", "Night"}

\* The enum labels as text, for the string comparison of the time_slot sort.
SlotText(slot) ==
    CASE slot = "Morning" -> <<"M", "o", "r", "n", "i", "n", "g">>
      [] slot = "Evening" -> <<"E", "v", "e", "n", "i", "n", "g">>
      [] slot = "Night"   -> <<"N", "i", "g", "h", "t">>

Order(id, name, email, phone, pickup, slot, status, created) ==
    [id |-> id, customer_name |-> name, email |-> email, phone_number |-> phone,
     pickup_date |-> pickup, time_slot |-> slot, status |-> status,
     created_at |-> created]

\* Instants and days the sample rows use.
Feb10 == DaysBefore(2) + 9
T0 == Feb10 * SecondsPerDay + 8 * 3600

MailAl == <<"a", "l", "@", "x">>
MailBo == <<"B", "o", "@", "x">>
\* The first e-mail of DUMMY_CUSTOMERS, which a real customer may also use.
MailRahul == <<"r","a","h","u","l",".","s","h","a","r","m","a","@",
               "e","m","a","i","l",".","c","o","m">>

\* Hand-picked rows: names differing only in case, a shared e-mail, equal
\* pickup dates, equal slots, two rows created at the same instant and one
\* created at 03:00 UTC, which is the day before for a viewer west of UTC.
SampleOrders ==
    { Order(1, <<"A", "l">>, MailAl, <<"1", "2">>, DayText(Feb10 + 4),
            "Morning", "Pending", IsoText(T0)),
      Order(2, <<"a", "l">>, MailBo, <<"2", "1">>, DayText(Feb10 + 4),
            "Evening", "Completed", IsoText(T0)),
      Order(3, <<"B", "o">>, MailAl, <<"1", "2">>, DayText(Feb10 + 2),
            "Morning", "Pending", IsoText(T0 + 2 * SecondsPerDay + 1)),
      Order(4, <<"c", "y">>, MailRahul, <<"3", "A">>, DayText(Feb10 + 2),
            "Night", "Picked Up", IsoText(T0 - 11 * SecondsPerDay - 5 * 3600)) }

Names3 == << <<"A", "l">>, <<"a", "l">>, <<"B", "o">> >>
Slots3 == <<"Morning", "Evening", "Night">>
Status4 == <<"Pending", "Completed", "Cancelled", "Picked Up">>

\* Row i of a generated table: fields cycle with different periods, the
\* creation instants are distinct and one hour apart.
GenOrder(i) ==
    Order(i, Names3[(i % 3) + 1], IF i % 5 = 0 THEN MailBo ELSE MailAl,
          TwoDigits(i % 7), DayText(Feb10 + 4 + (i % 2)),
          Slots3[(i % 3) + 1], Status4[(i % 4) + 1], IsoText(T0 + i * 3600))

GenTable(n) == { GenOrder(i) : i \in 1..n }

\* Tables the model starts from: any of the sample rows, or a generated
\* table of one, two or three pages.
Tables == SUBSET SampleOrders
PagedTables == { GenTable(n) : n \in {PAGE_SIZE, MaxOrders - PAGE_SIZE, MaxOrders} }


\* supabase .order("created_at", { ascending: false }): every arrangement of
\* the rows by decreasing creation instant (rows of equal instant in any order).
RECURSIVE OrderByCreatedDesc(_)
OrderByCreatedDesc(rows) ==
    IF rows = {} THEN { << >> }
    ELSE LET instants == { getTime(r.created_at) : r \in rows }
             latest == CHOOSE t \in instants : \A u \in instants : u <= t
             newest == { r \in rows : getTime(r.created_at) = latest }
         IN UNION { { <<r>> \o rest : rest \in OrderByCreatedDesc(rows \ {r}) }
                    : r \in newest }

-----------------------------------------------------------------------------
(* Orders view: filter, sort, paginate. *)

SortFields == {"created_at", "pickup_date", "customer_name", "phone_number", "time_slot"}

\* q is search.toLowerCase()
matchesSearch(o, q) ==
    \/ q = << >>
    \/ includes(toLowerCase(o.customer_name), q)
    \/ includes(toLowerCase(o.email), q)
    \/ includes(o.phone_number, q)

matchesStatus(o, status) == status = "all" \/ o.status = status

matchesDate(o, date) == date = << >> \/ o.pickup_date = date

\* keepOrder without the pickup-date test.
keepOrderNoDate(o, text, status, date) ==
    /\ matchesSearch(o, toLowerCase(text))
    /\ matchesStatus(o, status)

\* The callback given to orders.filter.
keepOrder(o, text, status, date) ==
    /\ matchesSearch(o, toLowerCase(text))
    /\ matchesStatus(o, status)
    /\ matchesDate(o, date)

\* Array.prototype.filter: a new array of the elements the callback keeps,
\* in the order of the source array.
RECURSIVE filter(_, _, _, _)
filter(arr, text, status, date) ==
    IF arr = << >> THEN << >>
    ELSE (IF keepOrder(Head(arr), text, status, date) THEN <<Head(arr)>> ELSE << >>)
           \o filter(Tail(arr), text, status, date)

\* aVal / bVal of the comparator's switch.
sortVal(o, field) ==
    CASE field = "customer_name" -> toLowerCase(o.customer_name)
      [] field = "phone_number"  -> o.phone_number
      [] field = "time_slot"     -> SlotText(o.time_slot)
      [] field = "pickup_date"   -> getTime(o.pickup_date)
      [] OTHER                   -> getTime(o.created_at)

\* aVal < bVal: on strings for the three text fields, on numbers otherwise.
valLess(x, y, field) ==
    IF field \in {"customer_name", "phone_number", "time_slot"}
    THEN StrLess(x, y)
    ELSE x < y

\* compare without the direction: always ascending.
compareIgnoringDir(a, b, field, dir) ==
    LET aVal == sortVal(a, field)
        bVal == sortVal(b, field)
    IN IF valLess(aVal, bVal, field) THEN -1
       ELSE IF valLess(bVal, aVal, field) THEN 1
       ELSE 0

\* The comparator given to filtered.sort.
compare(a, b, field, dir) ==
    LET aVal == sortVal(a, field)
        bVal == sortVal(b, field)
    IN IF valLess(aVal, bVal, field) THEN (IF dir = "asc" THEN -1 ELSE 1)
       ELSE IF valLess(bVal, aVal, field) THEN (IF dir = "asc" THEN 1 ELSE -1)
       ELSE 0

\* insertSorted moving x in front of equal elements too (an unstable sort).
RECURSIVE insertUnstable(_, _, _, _)
insertUnstable(arr, x, field, dir) ==
    IF arr = << >> THEN <<x>>
    ELSE IF compare(x, arr[Len(arr)], field, dir) <= 0
         THEN Append(insertUnstable(SubSeq(arr, 1, Len(arr) - 1), x, field, dir),
                     arr[Len(arr)])
         ELSE Append(arr, x)

\* One step of the stable sort: x moves in front of the trailing elements it
\* compares below, and stays behind every element it compares equal to.
RECURSIVE insertSorted(_, _, _, _)
insertSorted(arr, x, field, dir) ==
    IF arr = << >> THEN <<x>>
    ELSE IF compare(x, arr[Len(arr)], field, dir) < 0
         THEN Append(insertSorted(SubSeq(arr, 1, Len(arr) - 1), x, field, dir),
                     arr[Len(arr)])
         ELSE Append(arr, x)

\* Array.prototype.sort with the comparator (stable since ES2019).
RECURSIVE sort(_, _, _)
sort(arr, field, dir) ==
    IF arr = << >> THEN << >>
    ELSE insertSorted(sort(SubSeq(arr, 1, Len(arr) - 1), field, dir),
                      arr[Len(arr)], field, dir)

\* The pipeline sorting the orders array itself: orders.sort(...) before the
\* filter.
runPipelineInPlace(arr, text, status, date, field, dir) ==
    [orders |-> sort(arr, field, dir),
     filtered |-> filter(sort(arr, field, dir), text, status, date)]

\* "let filtered = orders.filter(...); filtered.sort(...)": the arrays after
\* the two statements.  filter builds a new array, which sort reorders in
\* place; the orders array is not written.
runPipeline(arr, text, status, date, field, dir) ==
    [orders |-> arr, filtered |-> sort(filter(arr, text, status, date), field, dir)]

\* Math.ceil(n / d) for n >= 0, d > 0
ceilDiv(n, d) == IF n % d = 0 THEN n \div d ELSE (n \div d) + 1

\* slice taking the element at index to as well.
sliceInclusive(arr, from, to) ==
    IF from >= Len(arr) THEN << >>
    ELSE SubSeq(arr, from + 1, IF to + 1 < Len(arr) THEN to + 1 ELSE Len(arr))

\* Array.prototype.slice(from, to) for 0 <= from <= to
slice(arr, from, to) ==
    IF from >= Len(arr) THEN << >>
    ELSE SubSeq(arr, from + 1, IF to < Len(arr) THEN to ELSE Len(arr))

\* One render of the Orders component on the given snapshot and state.  The
\* delete dialog lives in its TableRow and goes away with it.
RenderOrders(arr, text, status, date, field, dir, p) ==
    \E r \in { runPipeline(arr, text, status, date, field, dir) } :
       /\ orders' = r.orders
       /\ filtered' = r.filtered
       /\ totalPages' = ceilDiv(Len(r.filtered), PAGE_SIZE)
       /\ paginated' = slice(r.filtered, p * PAGE_SIZE, (p + 1) * PAGE_SIZE)
       /\ dialog' = (IF \E i \in 1..Len(paginated') : paginated'[i].id = dialog
                     THEN dialog ELSE 0)


-----------------------------------------------------------------------------
(* Customer Emails view: one row per e-mail, then the filter stage. *)

DUMMY_CUSTOMERS ==
    <<
       [email |-> <<"r","a","h","u","l",".","s","h","a","r","m","a","@","e","m","a","i","l",".","c","o","m">>,
        name |-> <<"R","a","h","u","l"," ","S","h","a","r","m","a">>,
        count |-> 5, lastDate |-> <<"2","0","2","6","-","0","2","-","1","4","T","1","0",":","0","0",":","0","0","Z">>],
       [email |-> <<"p","r","i","y","a",".","i","y","e","r","@","e","m","a","i","l",".","c","o","m">>,
        name |-> <<"P","r","i","y","a"," ","I","y","e","r">>,
        count |-> 3, lastDate |-> <<"2","0","2","6","-","0","2","-","1","3","T","0","9",":","0","0",":","0","0","Z">>],
       [email |-> <<"a","r","u","n",".","k","u","m","a","r","@","e","m","a","i","l",".","c","o","m">>,
        name |-> <<"A","r","u","n"," ","K","u","m","a","r">>,
        count |-> 8, lastDate |-> <<"2","0","2","6","-","0","2","-","1","2","T","0","8",":","3","0",":","0","0","Z">>],
       [email |-> <<"l","a","k","s","h","m","i",".","d","e","v","i","@","e","m","a","i","l",".","c","o","m">>,
        name |-> <<"L","a","k","s","h","m","i"," ","D","e","v","i">>,
        count |-> 2, lastDate |-> <<"2","0","2","6","-","0","2","-","1","1","T","1","4",":","0","0",":","0","0","Z">>],
       [email |-> <<"s","u","r","e","s","h",".","r","e","d","d","y","@","e","m","a","i","l",".","c","o","m">>,
        name |-> <<"S","u","r","e","s","h"," ","R","e","d","d","y">>,
        count |-> 6, lastDate |-> <<"2","0","2","6","-","0","2","-","1","0","T","1","1",":","0","0",":","0","0","Z">>],
       [email |-> <<"m","e","e","n","a",".","n","a","i","r","@","e","m","a","i","l",".","c","o","m">>,
        name |-> <<"M","e","e","n","a"," ","N","a","i","r">>,
        count |-> 1, lastDate |-> <<"2","0","2","6","-","0","2","-","0","9","T","1","6",":","0","0",":","0","0","Z">>],
       [email |-> <<"g","a","n","e","s","h",".","p","a","t","e","l","@","e","m","a","i","l",".","c","o","m">>,
        name |-> <<"G","a","n","e","s","h"," ","P","a","t","e","l">>,
        count |-> 4, lastDate |-> <<"2","0","2","6","-","0","2","-","0","8","T","0","7",":","3","0",":","0","0","Z">>],
       [email |-> <<"a","n","i","t","h","a",".","r","a","o","@","e","m","a","i","l",".","c","o","m">>,
        name |-> <<"A","n","i","t","h","a"," ","R","a","o">>,
        count |-> 7, lastDate |-> <<"2","0","2","6","-","0","2","-","0","7","T","1","3",":","0","0",":","0","0","Z">>],
       [email |-> <<"v","i","j","a","y",".","k","r","i","s","h","n","a","n","@","e","m","a","i","l",".","c","o","m">>,
        name |-> <<"V","i","j","a","y"," ","K","r","i","s","h","n","a","n">>,
        count |-> 2, lastDate |-> <<"2","0","2","6","-","0","2","-","0","6","T","1","0",":","3","0",":","0","0","Z">>],
       [email |-> <<"d","e","e","p","a",".","m","e","n","o","n","@","e","m","a","i","l",".","c","o","m">>,
        name |-> <<"D","e","e","p","a"," ","M","e","n","o","n">>,
        count |-> 9, lastDate |-> <<"2","0","2","6","-","0","2","-","0","5","T","1","5",":","0","0",":","0","0","Z">>],
       [email |-> <<"k","a","r","t","h","i","k",".","s","u","b","r","a","m","@","e","m","a","i","l",".","c","o","m">>,
        name |-> <<"K","a","r","t","h","i","k"," ","S","u","b","r","a","m","a","n","i","a","n">>,
        count |-> 3, lastDate |-> <<"2","0","2","6","-","0","2","-","0","4","T","0","8",":","0","0",":","0","0","Z">>],
       [email |-> <<"r","e","v","a","t","h","i",".","b","a","l","a","@","e","m","a","i","l",".","c","o","m">>,
        name |-> <<"R","e","v","a","t","h","i"," ","B","a","l","a","s","u","b","r","a","m","a","n","i","a","n">>,
        count |-> 1, lastDate |-> <<"2","0","2","6","-","0","2","-","0","3","T","1","2",":","0","0",":","0","0","Z">>],
       [email |-> <<"m","o","h","a","n",".","d","a","s","@","e","m","a","i","l",".","c","o","m">>,
        name |-> <<"M","o","h","a","n"," ","D","a","s">>,
        count |-> 5, lastDate |-> <<"2","0","2","6","-","0","2","-","0","2","T","0","9",":","3","0",":","0","0","Z">>],
       [email |-> <<"s","r","i","d","e","v","i",".","r","a","m","@","e","m","a","i","l",".","c","o","m">>,
        name |-> <<"S","r","i","d","e","v","i"," ","R","a","m","a","n">>,
        count |-> 4, lastDate |-> <<"2","0","2","6","-","0","2","-","0","1","T","1","4",":","3","0",":","0","0","Z">>],
       [email |-> <<"p","r","a","s","a","d",".","v","e","n","k","a","t","@","e","m","a","i","l",".","c","o","m">>,
        name |-> <<"P","r","a","s","a","d"," ","V","e","n","k","a","t","e","s","h">>,
        count |-> 2, lastDate |-> <<"2","0","2","6","-","0","1","-","3","1","T","1","1",":","0","0",":","0","0","Z">>],
       [email |-> <<"k","a","v","i","t","h","a",".","s","u","n","d","a","r","@","e","m","a","i","l",".","c","o","m">>,
        name |-> <<"K","a","v","i","t","h","a"," ","S","u","n","d","a","r","a","m">>,
        count |-> 6, lastDate |-> <<"2","0","2","6","-","0","1","-","3","0","T","1","6",":","3","0",":","0","0","Z">>],
       [email |-> <<"r","a","m","e","s","h",".","b","a","b","u","@","e","m","a","i","l",".","c","o","m">>,
        name |-> <<"R","a","m","e","s","h"," ","B","a","b","u">>,
        count |-> 3, lastDate |-> <<"2","0","2","6","-","0","1","-","2","9","T","0","7",":","0","0",":","0","0","Z">>],
       [email |-> <<"u","m","a",".","m","a","h","e","s","h","@","e","m","a","i","l",".","c","o","m">>,
        name |-> <<"U","m","a"," ","M","a","h","e","s","h","w","a","r","i">>,
        count |-> 10, lastDate |-> <<"2","0","2","6","-","0","1","-","2","8","T","1","3",":","3","0",":","0","0","Z">>],
       [email |-> <<"b","a","l","a","j","i",".","s","r","i","n","i","v","a","s","@","e","m","a","i","l",".","c","o","m">>,
        name |-> <<"B","a","l","a","j","i"," ","S","r","i","n","i","v","a","s","a","n">>,
        count |-> 1, lastDate |-> <<"2","0","2","6","-","0","1","-","2","7","T","1","0",":","0","0",":","0","0","Z">>],
       [email |-> <<"p","a","d","m","a",".","n","a","r","a","y","a","n","a","n","@","e","m","a","i","l",".","c","o","m">>,
        name |-> <<"P","a","d","m","a"," ","N","a","r","a","y","a","n","a","n">>,
        count |-> 7, lastDate |-> <<"2","0","2","6","-","0","1","-","2","6","T","1","5",":","0","0",":","0","0","Z">>]
    >>

\* The Map of the useMemo callback, as its entries in insertion order.
mapHas(map, email) == \E i \in 1..Len(map) : map[i].email = email

mapIndex(map, email) == CHOOSE i \in 1..Len(map) : map[i].email = email

\* addOrder without existing.count++.
addOrderNoIncrement(map, o) ==
    IF mapHas(map, o.email)
    THEN LET i == mapIndex(map, o.email)
             existing == map[i]
             newer == StrLess(existing.lastDate, o.created_at)
         IN [map EXCEPT ![i] =
                [email |-> existing.email,
                 name |-> IF newer THEN o.customer_name ELSE existing.name,
                 count |-> existing.count,
                 lastDate |-> IF newer THEN o.created_at ELSE existing.lastDate]]
    ELSE Append(map, [email |-> o.email, name |-> o.customer_name, count |-> 1,
                      lastDate |-> o.created_at])

\* addOrder taking date and name from every order it sees (last seen wins).
addOrderLastSeen(map, o) ==
    IF mapHas(map, o.email)
    THEN LET i == mapIndex(map, o.email)
             existing == map[i]
         IN [map EXCEPT ![i] =
                [email |-> existing.email,
                 name |-> o.customer_name,
                 count |-> existing.count + 1,
                 lastDate |-> o.created_at]]
    ELSE Append(map, [email |-> o.email, name |-> o.customer_name, count |-> 1,
                      lastDate |-> o.created_at])

\* The body of orders.forEach: count the order in its e-mail's entry, taking
\* date and name from it when its created_at string is greater, or add the
\* entry.
addOrder(map, o) ==
    IF mapHas(map, o.email)
    THEN LET i == mapIndex(map, o.email)
             existing == map[i]
             newer == StrLess(existing.lastDate, o.created_at)
         IN [map EXCEPT ![i] =
                [email |-> existing.email,
                 name |-> IF newer THEN o.customer_name ELSE existing.name,
                 count |-> existing.count + 1,
                 lastDate |-> IF newer THEN o.created_at ELSE existing.lastDate]]
    ELSE Append(map, [email |-> o.email, name |-> o.customer_name, count |-> 1,
                      lastDate |-> o.created_at])

RECURSIVE forEachOrder(_, _)
forEachOrder(map, arr) ==
    IF arr = << >> THEN map
    ELSE forEachOrder(addOrder(map, Head(arr)), Tail(arr))

\* customers of src/pages/admin/CustomerEmails.tsx: Array.from(map.values())
customersMemo(arr) == forEachOrder(<< >>, arr)

\* The body of DUMMY_CUSTOMERS.forEach.
addDummy(map, d) == IF mapHas(map, d.email) THEN map ELSE Append(map, d)

RECURSIVE forEachDummy(_, _)
forEachDummy(map, arr) ==
    IF arr = << >> THEN map
    ELSE forEachDummy(addDummy(map, Head(arr)), Tail(arr))

\* customers of the variant that merges the dummy rows after the real ones.
customersDummyMemo(arr) == forEachDummy(forEachOrder(<< >>, arr), DUMMY_CUSTOMERS)

\* a <= b on two strings
StrLeq(a, b) == ~StrLess(b, a)

\* parseInt of the Select's values "2", "5", "10"
parseInt(s) == IF Len(s) = 1 THEN Digit(s[1]) ELSE Num2(s, 1)

\* The values of the "Min orders" Select.
AllText == <<"a", "l", "l">>
MinOrdersChoices == {AllText, <<"2">>, <<"5">>, <<"1", "0">>}

\* The callback given to customers.filter.
keepCustomer(c, text, minimum, from, to) ==
    LET q == toLowerCase(text)
        matchesSearchC == \/ q = << >>
                          \/ includes(toLowerCase(c.email), q)
                          \/ includes(toLowerCase(c.name), q)
        matchesMin == minimum = AllText \/ c.count >= parseInt(minimum)
        matchesFrom == from = << >> \/ StrLeq(from, c.lastDate)
        matchesTo == \/ to = << >>
                     \/ StrLeq(c.lastDate,
                               to \o <<"T", "2", "3", ":", "5", "9", ":", "5", "9">>)
    IN matchesSearchC /\ matchesMin /\ matchesFrom /\ matchesTo

RECURSIVE filterCustomers(_, _, _, _, _)
filterCustomers(rows, text, minimum, from, to) ==
    IF rows = << >> THEN << >>
    ELSE (IF keepCustomer(Head(rows), text, minimum, from, to)
          THEN <<Head(rows)>> ELSE << >>)
           \o filterCustomers(Tail(rows), text, minimum, from, to)


-----------------------------------------------------------------------------
(* Dashboard view. *)

MonthAbbr == << <<"J","a","n">>, <<"F","e","b">>, <<"M","a","r">>, <<"A","p","r">>,
               <<"M","a","y">>, <<"J","u","n">>, <<"J","u","l">>, <<"A","u","g">>,
               <<"S","e","p">>, <<"O","c","t">>, <<"N","o","v">>, <<"D","e","c">> >>

\* date-fns format(date, "MMM d")
formatMMMd(t, zone) ==
    LET d == LocalDay(t, zone)
        dom == d - DaysBefore(MonthOfDay(d)) + 1
    IN MonthAbbr[MonthOfDay(d)] \o <<" ">>
         \o (IF dom < 10 THEN <<Digits[dom + 1]>> ELSE TwoDigits(dom))

\* lineData starting one day late: subDays(new Date(), 12 - i).
lineDataOffByOne(arr, t, zone) ==
    [ k \in 1..14 |->
        LET i == k - 1
            date == subDays(t, 12 - i)
            dateStr == format(date, zone)
            onDay(o) == format(getTime(o.created_at), zone) = dateStr
        IN [date |-> formatMMMd(date, zone), orders |-> Len(SelectSeq(arr, onDay))] ]

\* lineData: Array.from({ length: 14 }, (_, i) => ...), i = 0..13
lineData(arr, t, zone) ==
    [ k \in 1..14 |->
        LET i == k - 1
            date == subDays(t, 13 - i)
            dateStr == format(date, zone)
            onDay(o) == format(getTime(o.created_at), zone) = dateStr
        IN [date |-> formatMMMd(date, zone), orders |-> Len(SelectSeq(arr, onDay))] ]

\* slotCounts with the counts of Morning and Night exchanged.
slotCountsSwapped(arr) ==
    [ k \in 1..3 |->
        LET slot == Slots3[4 - k]
            inSlot(o) == o.time_slot = slot
        IN [name |-> Slots3[k], value |-> Len(SelectSeq(arr, inSlot))] ]

\* slotCounts: ["Morning", "Evening", "Night"].map(...)
slotCounts(arr) ==
    [ k \in 1..3 |->
        LET slot == Slots3[k]
            inSlot(o) == o.time_slot = slot
        IN [name |-> slot, value |-> Len(SelectSeq(arr, inSlot))] ]

\* renderDashboard counting as today's pickups only the pending ones.
renderDashboardPendingToday(arr, t, zone) ==
    LET todayStr == format(t, zone)
        isPending(o) == o.status = "Pending"
        isCompleted(o) == o.status = "Completed"
        isToday(o) == o.pickup_date = todayStr /\ o.status = "Pending"
    IN [total |-> Len(arr),
        pending |-> Len(SelectSeq(arr, isPending)),
        completed |-> Len(SelectSeq(arr, isCompleted)),
        todayStr |-> todayStr,
        todayPickups |-> Len(SelectSeq(arr, isToday)),
        lineData |-> lineData(arr, t, zone),
        slotCounts |-> slotCounts(arr)]

\* One render of the Dashboard component at instant t in the viewer's zone.
renderDashboard(arr, t, zone) ==
    LET todayStr == format(t, zone)
        isPending(o) == o.status = "Pending"
        isCompleted(o) == o.status = "Completed"
        isToday(o) == o.pickup_date = todayStr
    IN [total |-> Len(arr),
        pending |-> Len(SelectSeq(arr, isPending)),
        completed |-> Len(SelectSeq(arr, isCompleted)),
        todayStr |-> todayStr,
        todayPickups |-> Len(SelectSeq(arr, isToday)),
        lineData |-> lineData(arr, t, zone),
        slotCounts |-> slotCounts(arr)]


-----------------------------------------------------------------------------
(* Inputs the operator can give. *)

SearchTexts == { << >>, <<"A", "l">>, <<"2">>, <<"3", "A">> }
StatusChoices == {"all"} \cup OrderStatus
DateChoices == { << >>, DayText(Feb10 + 4), DayText(Feb10 + 5) }

CustSearchTexts == { << >>, <<"A", "l">>, <<"r", "a">> }
RangeDates == { << >>, DayText(Feb10), DayText(Feb10 + 2) }

\* Instants at which the dashboard is looked at, and viewers' UTC offsets
\* (UTC-5, UTC, UTC+5:30).
Nows == { T0 + 2 * SecondsPerDay + h * 3600 : h \in {1, 12, 17} }
Zones == { -18000, 0, 19800 }

-----------------------------------------------------------------------------
(* Initial states: the table holds some rows, one page is mounted and has  *)
(* rendered once on the empty default data of its query.                   *)

InitOrdersView ==
    /\ orders = << >>
    /\ search = << >>
    /\ statusFilter = "all"
    /\ dateFilter = << >>
    /\ sortField = "created_at"
    /\ sortDir = "desc"
    /\ page = 0
    /\ filtered = << >>
    /\ totalPages = 0
    /\ paginated = << >>
    /\ dialog = 0
    /\ ordersInvalidated = FALSE

InitEmailsView ==
    /\ emailOrders = << >>
    /\ custSearch = << >>
    /\ minOrders = AllText
    /\ dateFrom = << >>
    /\ dateTo = << >>
    /\ customers = << >>
    /\ custFiltered = << >>
    /\ customersDummy = (IF view = "emailsDummy" THEN customersDummyMemo(<< >>) ELSE << >>)
    /\ custFilteredDummy = customersDummy

InitDashboardView ==
    /\ dashOrders = << >>
    /\ dashboard = (IF view = "dashboard" THEN renderDashboard(<< >>, now, tz) ELSE << >>)

\* The rows the table holds when the session starts: two pending orders.
StartOrders == { o \in SampleOrders : o.id \in {1, 3} }

\* Identities of the authentication provider, and the role grants.
Identities == {"ann", "bob", "cat", "dan"}
RoleGrants == { <<"ann", "admin">>, <<"bob", "moderator">>, <<"dan", "admin">> }

NoAnswer == [kind |-> "none", id |-> 0, status |-> "", ok |-> TRUE]
NoDocument == [kind |-> "none", count |-> 0, body |-> << >>]
NoResponse == [caller |-> "", op |-> "none", id |-> 0, error |-> "", data |-> << >>]

\* An administrator is signed in and the layout shows the page.
InitSignedIn ==
    /\ loading = FALSE
    /\ user = "ann"
    /\ isAdmin = TRUE
    /\ layout = "content"
    /\ route = view

\* The state of AdminLogin's useState hooks when the page is mounted.
FormDefaults == [error |-> "", loading |-> FALSE, isSignup |-> FALSE]

\* A query string without status and without pickupDate.
NoParams == [status |-> "", pickupDate |-> << >>]

\* Nothing was sent, shown or exported yet.
InitIdle ==
    /\ loginForm = FormDefaults
    /\ authCalls = << >>
    /\ authAnswer = [kind |-> "none", live |-> FALSE, error |-> ""]
    /\ pendingCount = 0
    /\ pendingMatched = {}
    /\ badgeInvalidated = FALSE
    /\ requests = << >>
    /\ settled = NoAnswer
    /\ toast = ""
    /\ document = NoDocument
    /\ user_roles = RoleGrants
    /\ response = NoResponse
    /\ peerOrders = << >>

InitViews ==
    /\ InitOrdersView
    /\ InitEmailsView
    /\ InitDashboardView
    /\ renders = 0
    /\ InitSignedIn
    /\ InitIdle

Init ==
    /\ store \in Tables
    /\ view = "orders"
    /\ now = T0 + 2 * SecondsPerDay + 3600
    /\ tz = 0
    /\ InitViews
    /\ searchParams = NoParams

InitPages ==
    /\ store \in PagedTables
    /\ view = "orders"
    /\ now = T0 + 2 * SecondsPerDay + 3600
    /\ tz = 0
    /\ InitViews
    /\ searchParams = NoParams

\* The Orders page as the router mounted it for a URL with a query string.
InitPagesAt(statuses, dates) ==
    /\ store \in PagedTables
    /\ view = "orders"
    /\ now = T0 + 2 * SecondsPerDay + 3600
    /\ tz = 0
    /\ InitViews
    /\ searchParams \in [status : statuses, pickupDate : dates]

InitEmailsDummy ==
    /\ store \in { t \in Tables : Cardinality(t) <= 2 }
    /\ view = "emailsDummy"
    /\ now = T0 + 2 * SecondsPerDay + 3600
    /\ tz = 0
    /\ InitViews
    /\ searchParams = NoParams

InitEmails ==
    /\ store \in Tables \cup PagedTables
    /\ view = "emails"
    /\ now = T0 + 2 * SecondsPerDay + 3600
    /\ tz = 0
    /\ InitViews
    /\ searchParams = NoParams

InitDashboard ==
    /\ store \in Tables \cup PagedTables
    /\ view = "dashboard"
    /\ now \in Nows
    /\ tz \in Zones
    /\ InitViews
    /\ searchParams = NoParams

-----------------------------------------------------------------------------
(* Orders view: the query and the handlers.  Each handler's state update   *)
(* is followed by the render it causes.                                    *)

\* queryFn of ["admin-orders"] resolves and the component renders its data.
FetchOrders ==
    /\ view = "orders"
    /\ \E snapshot \in OrderByCreatedDesc(store) :
          RenderOrders(snapshot, search, statusFilter, dateFilter, sortField, sortDir, page)
    /\ ordersInvalidated' = FALSE
    /\ renders' = 0
    /\ UNCHANGED <<restVars, store, view, search, statusFilter, dateFilter, sortField, sortDir,
                   page, emailVars, dashVars>>

\* onChange of the search Input: setSearch(e.target.value); setPage(0)
SetSearch(inputs) ==
    /\ view = "orders"
    /\ \E v \in inputs \ {search} :
          /\ search' = v
          /\ page' = 0
          /\ RenderOrders(orders, v, statusFilter, dateFilter, sortField, sortDir, 0)
    /\ renders' = 0
    /\ UNCHANGED <<restVars, ordersInvalidated, store, view, statusFilter, dateFilter, sortField, sortDir,
                   emailVars, dashVars>>

\* onValueChange of the status Select: setStatusFilter(v); setPage(0)
SetStatusFilter(inputs) ==
    /\ view = "orders"
    /\ \E v \in inputs \ {statusFilter} :
          /\ statusFilter' = v
          /\ page' = 0
          /\ RenderOrders(orders, search, v, dateFilter, sortField, sortDir, 0)
    /\ renders' = 0
    /\ UNCHANGED <<restVars, ordersInvalidated, store, view, search, dateFilter, sortField, sortDir,
                   emailVars, dashVars>>

\* A date Input whose handler leaves the page index alone.
SetDateFilterKeepPage(inputs) ==
    /\ view = "orders"
    /\ \E v \in inputs \ {dateFilter} :
          /\ dateFilter' = v
          /\ page' = page
          /\ RenderOrders(orders, search, statusFilter, v, sortField, sortDir, page)
    /\ renders' = 0
    /\ UNCHANGED <<restVars, ordersInvalidated, store, view, search, statusFilter, sortField, sortDir,
                   emailVars, dashVars>>

\* onChange of the date Input: setDateFilter(e.target.value); setPage(0)
SetDateFilter(inputs) ==
    /\ view = "orders"
    /\ \E v \in inputs \ {dateFilter} :
          /\ dateFilter' = v
          /\ page' = 0
          /\ RenderOrders(orders, search, statusFilter, v, sortField, sortDir, 0)
    /\ renders' = 0
    /\ UNCHANGED <<restVars, ordersInvalidated, store, view, search, statusFilter, sortField, sortDir,
                   emailVars, dashVars>>

\* useEffect(..., []) of the mount: the page was opened with
\* ?status=...&pickupDate=... in its URL (an absent parameter is ""), the
\* state is that of the useState defaults, and a parameter that is present
\* becomes the filter.  The page index is not written.  When one of the two
\* is present, setSearchParams({}, { replace: true }) empties the query.
\* Without either the effect does nothing.
ReadUrlParams ==
    /\ view = "orders"
    /\ search = << >> /\ statusFilter = "all" /\ dateFilter = << >>
    /\ sortField = "created_at" /\ sortDir = "desc" /\ page = 0
    /\ \E status \in {searchParams.status}, pickupDate \in {searchParams.pickupDate} :
          /\ status # "" \/ pickupDate # << >>
          /\ statusFilter' = (IF status # "" THEN status ELSE statusFilter)
          /\ dateFilter' = (IF pickupDate # << >> THEN pickupDate ELSE dateFilter)
          /\ searchParams' = NoParams
          /\ RenderOrders(orders, search, statusFilter', dateFilter', sortField, sortDir, page)
    /\ renders' = 0
    /\ UNCHANGED <<loading, user, isAdmin, layout, route, formVars,
                   badgeVars, writeVars, backendVars,
                   ordersInvalidated, store, view, search, sortField, sortDir, page,
                   emailVars, dashVars>>

\* A toggle that keeps the direction when another field is chosen.
toggleSortKeepDir(field, curField, curDir) ==
    IF curField = field
    THEN <<curField, IF curDir = "asc" THEN "desc" ELSE "asc">>
    ELSE <<field, curDir>>

\* The state toggleSort(field) leaves: <<sortField, sortDir>>
toggleSort(field, curField, curDir) ==
    IF curField = field
    THEN <<curField, IF curDir = "asc" THEN "desc" ELSE "asc">>
    ELSE <<field, "desc">>

\* onClick of a sortable column header
ToggleSort(inputs) ==
    /\ view = "orders"
    /\ \E field \in inputs :
          LET t == toggleSort(field, sortField, sortDir)
          IN /\ sortField' = t[1]
             /\ sortDir' = t[2]
             /\ RenderOrders(orders, search, statusFilter, dateFilter, t[1], t[2], page)
    /\ renders' = 0
    /\ UNCHANGED <<restVars, ordersInvalidated, store, view, search, statusFilter, dateFilter, page,
                   emailVars, dashVars>>

\* onClick of the ChevronRight button (shown when totalPages > 1, disabled
\* when page >= totalPages - 1): setPage(page + 1)
NextPage ==
    /\ view = "orders"
    /\ totalPages > 1
    /\ ~(page >= totalPages - 1)
    /\ page' = page + 1
    /\ RenderOrders(orders, search, statusFilter, dateFilter, sortField, sortDir, page + 1)
    /\ renders' = 0
    /\ UNCHANGED <<restVars, ordersInvalidated, store, view, search, statusFilter, dateFilter, sortField, sortDir,
                   emailVars, dashVars>>

\* onClick of the ChevronLeft button (disabled when page = 0): setPage(page - 1)
PrevPage ==
    /\ view = "orders"
    /\ totalPages > 1
    /\ page # 0
    /\ page' = page - 1
    /\ RenderOrders(orders, search, statusFilter, dateFilter, sortField, sortDir, page - 1)
    /\ renders' = 0
    /\ UNCHANGED <<restVars, ordersInvalidated, store, view, search, statusFilter, dateFilter, sortField, sortDir,
                   emailVars, dashVars>>

\* date-fns format(date, "MMM d, yyyy") in the model's year
formatMMMdyyyy(t, zone) == formatMMMd(t, zone) \o <<",", " ", "2", "0", "2", "6">>

\* The cells of one exported row: customer, e-mail, phone, pickup date,
\* slot, status, created.
exportRow(o, zone) ==
    <<o.customer_name, o.email, o.phone_number, o.pickup_date,
      o.time_slot, o.status, formatMMMdyyyy(getTime(o.created_at), zone)>>

\* The rows in the order opposite to the one they were given in.
exportBodyReversed(arr, zone) == [i \in 1..Len(arr) |-> exportRow(arr[Len(arr) + 1 - i], zone)]

\* arr.map(o => [...]): the table body of the document
exportBody(arr, zone) == [i \in 1..Len(arr) |-> exportRow(arr[i], zone)]

\* onClick of the "PDF" button: exportPDF writes the header count and the
\* body from filtered, saves the file and shows a toast.
ExportPDF ==
    /\ view = "orders"
    /\ document' = [kind |-> "pdf", count |-> Len(filtered),
                    body |-> exportBody(filtered, tz)]
    /\ toast' = "PDF downloaded"
    /\ UNCHANGED <<store, view, ordersVars, emailVars, dashVars, renders,
                   authVars, badgeVars, requests, settled, backendVars>>

\* onClick of the "Print" button: handlePrint opens a window (opened is
\* FALSE when the browser blocks it, and then nothing is written) and
\* writes the header count and the rows from filtered.
HandlePrint(popups) ==
    /\ view = "orders"
    /\ \E opened \in popups :
          IF opened
          THEN document' = [kind |-> "print", count |-> Len(filtered),
                            body |-> exportBody(filtered, tz)]
          ELSE UNCHANGED document
    /\ UNCHANGED <<store, view, ordersVars, emailVars, dashVars, renders,
                   authVars, badgeVars, requests, settled, toast, backendVars>>

\* The Orders view over the sample rows, with every input.
NextOrders ==
    \/ FetchOrders
    \/ SetSearch(SearchTexts)
    \/ SetStatusFilter(StatusChoices)
    \/ SetDateFilter(DateChoices)
    \/ ToggleSort(SortFields)

Spec == Init /\ [][NextOrders]_vars

\* The Orders view over the generated tables, which fill several pages.
NextPages ==
    \/ FetchOrders
    \/ ReadUrlParams
    \/ SetSearch({ << >>, <<"A", "l">> })
    \/ SetStatusFilter({"all", "Pending"})
    \/ SetDateFilter({ << >>, DayText(Feb10 + 4) })
    \/ ToggleSort(SortFields)
    \/ NextPage
    \/ PrevPage

SpecPages ==
    InitPagesAt({"", "Pending"}, { << >>, DayText(Feb10 + 4) }) /\ [][NextPages]_vars

\* The Orders page opened with any query string, a status that is not one of
\* the enum's values included.
SpecUrl ==
    InitPagesAt({"", "Pending", "Shipped"}, { << >>, DayText(Feb10 + 4) })
    /\ [][NextPages]_vars

\* The Orders view over the generated tables with the two export buttons.
NextExport ==
    \/ FetchOrders
    \/ SetDateFilter({ << >>, DayText(Feb10 + 5) })
    \/ ToggleSort({"created_at", "customer_name"})
    \/ NextPage
    \/ PrevPage
    \/ ExportPDF
    \/ HandlePrint(BOOLEAN)

SpecExport == InitPages /\ [][NextExport]_vars


-----------------------------------------------------------------------------
(* Customer Emails view: the query and the handlers. *)

RECURSIVE Arrangements(_)
Arrangements(rows) ==
    IF rows = {} THEN { << >> }
    ELSE UNION { { <<r>> \o rest : rest \in Arrangements(rows \ {r}) } : r \in rows }

Reverse(arr) == [i \in 1..Len(arr) |-> arr[Len(arr) + 1 - i]]

\* supabase .select("*") without .order(): the rows in whatever order the
\* backend returns them (every order for the sample rows; for a generated
\* table, by creation instant in either direction).
AnyOrder(rows) ==
    IF rows \subseteq SampleOrders THEN Arrangements(rows)
    ELSE OrderByCreatedDesc(rows) \cup { Reverse(a) : a \in OrderByCreatedDesc(rows) }

\* One render of the mounted CustomerEmails component on the given snapshot:
\* src/pages/admin/CustomerEmails.tsx ("emails") or the variant that merges
\* the dummy rows ("emailsDummy").
RenderEmails(arr, text, minimum, from, to) ==
    /\ emailOrders' = arr
    /\ IF view = "emails"
       THEN /\ customers' = customersMemo(arr)
            /\ custFiltered' = filterCustomers(customers', text, minimum, from, to)
            /\ UNCHANGED <<customersDummy, custFilteredDummy>>
       ELSE /\ customersDummy' = customersDummyMemo(arr)
            /\ custFilteredDummy' = filterCustomers(customersDummy', text, minimum, from, to)
            /\ UNCHANGED <<customers, custFiltered>>

\* queryFn of ["all-orders-emails"] resolves and the component renders.
FetchEmails ==
    /\ view \in {"emails", "emailsDummy"}
    /\ \E snapshot \in AnyOrder(store) :
          RenderEmails(snapshot, custSearch, minOrders, dateFrom, dateTo)
    /\ renders' = 0
    /\ UNCHANGED <<restVars, store, view, custSearch, minOrders, dateFrom, dateTo,
                   ordersVars, dashVars>>

\* onChange of the search Input: setSearch(e.target.value)
SetCustSearch(inputs) ==
    /\ view \in {"emails", "emailsDummy"}
    /\ \E v \in inputs \ {custSearch} :
          /\ custSearch' = v
          /\ RenderEmails(emailOrders, v, minOrders, dateFrom, dateTo)
    /\ renders' = 0
    /\ UNCHANGED <<restVars, store, view, minOrders, dateFrom, dateTo, ordersVars, dashVars>>

\* onValueChange of the "Min orders" Select: setMinOrders
SetMinOrders ==
    /\ view \in {"emails", "emailsDummy"}
    /\ \E v \in MinOrdersChoices \ {minOrders} :
          /\ minOrders' = v
          /\ RenderEmails(emailOrders, custSearch, v, dateFrom, dateTo)
    /\ renders' = 0
    /\ UNCHANGED <<restVars, store, view, custSearch, dateFrom, dateTo, ordersVars, dashVars>>

\* onChange of the "From" date Input: setDateFrom(e.target.value)
SetDateFrom(inputs) ==
    /\ view \in {"emails", "emailsDummy"}
    /\ \E v \in inputs \ {dateFrom} :
          /\ dateFrom' = v
          /\ RenderEmails(emailOrders, custSearch, minOrders, v, dateTo)
    /\ renders' = 0
    /\ UNCHANGED <<restVars, store, view, custSearch, minOrders, dateTo, ordersVars, dashVars>>

\* onChange of the "To" date Input: setDateTo(e.target.value)
SetDateTo(inputs) ==
    /\ view \in {"emails", "emailsDummy"}
    /\ \E v \in inputs \ {dateTo} :
          /\ dateTo' = v
          /\ RenderEmails(emailOrders, custSearch, minOrders, dateFrom, v)
    /\ renders' = 0
    /\ UNCHANGED <<restVars, store, view, custSearch, minOrders, dateFrom, ordersVars, dashVars>>

NextEmails ==
    \/ FetchEmails
    \/ SetCustSearch(CustSearchTexts)
    \/ SetMinOrders
    \/ SetDateFrom(RangeDates)
    \/ SetDateTo(RangeDates)

SpecEmails == InitEmails /\ [][NextEmails]_vars

\* An order created in the last second of 12 February (UTC).
LateOrder ==
    Order(5, <<"D", "i">>, <<"d", "i", "@", "x">>, <<"4", "2">>, DayText(Feb10 + 4),
          "Evening", "Pending", IsoText(T0 + 2 * SecondsPerDay + 16 * 3600 - 1))

\* The Customer Emails view over a table with that order, for a viewer in
\* UTC.
InitEmailDates ==
    /\ store = StartOrders \cup {LateOrder}
    /\ view = "emails"
    /\ now = T0 + 2 * SecondsPerDay + 3600
    /\ tz = 0
    /\ InitViews
    /\ searchParams = NoParams

NextEmailDates ==
    \/ FetchEmails
    \/ SetCustSearch({ << >>, <<"A", "l">> })
    \/ SetMinOrders
    \/ SetDateFrom(RangeDates)
    \/ SetDateTo(RangeDates)

SpecEmailDates == InitEmailDates /\ [][NextEmailDates]_vars

\* String(n) of a count
RECURSIVE numText(_)
numText(n) == IF n < 10 THEN <<Digits[n + 1]>> ELSE numText(n \div 10) \o <<Digits[(n % 10) + 1]>>

\* Array.prototype.join
RECURSIVE join(_, _)
join(parts, sep) ==
    IF parts = << >> THEN << >>
    ELSE IF Len(parts) = 1 THEN parts[1]
    ELSE parts[1] \o sep \o join(Tail(parts), sep)

\* "Email,Customer Name,Total Orders,Last Order Date\n"
CsvHeader ==
    <<"E","m","a","i","l",",","C","u","s","t","o","m","e","r"," ","N","a","m","e",",",
      "T","o","t","a","l"," ","O","r","d","e","r","s",",",
      "L","a","s","t"," ","O","r","d","e","r"," ","D","a","t","e","\n">>

\* `${c.email},"${c.name}",${c.count},${format(new Date(c.lastDate), "yyyy-MM-dd")}`
csvRow(c, zone) ==
    c.email \o <<",", "\"">> \o c.name \o <<"\"", ",">> \o numText(c.count)
      \o <<",">> \o format(getTime(c.lastDate), zone)

\* header + rows: the text of the Blob
csvText(rows, zone) ==
    CsvHeader \o join([i \in 1..Len(rows) |-> csvRow(rows[i], zone)], <<"\n">>)

\* onClick of "Export CSV": exportCSV downloads the file.
ExportCSV ==
    /\ view = "emails"
    /\ document' = [kind |-> "csv", count |-> Len(custFiltered),
                    body |-> csvText(custFiltered, tz)]
    /\ UNCHANGED <<store, view, ordersVars, emailVars, dashVars, renders,
                   authVars, badgeVars, requests, settled, toast, backendVars>>

\* onClick of "Copy All": copyAll writes the e-mails to the clipboard and
\* shows a toast.
CopyAll ==
    /\ view = "emails"
    /\ document' = [kind |-> "clipboard", count |-> Len(custFiltered),
                    body |-> join([i \in 1..Len(custFiltered) |-> custFiltered[i].email],
                                  <<",", " ">>)]
    /\ toast' = ToString(Len(custFiltered)) \o " emails copied"
    /\ UNCHANGED <<store, view, ordersVars, emailVars, dashVars, renders,
                   authVars, badgeVars, requests, settled, backendVars>>

\* Orders of customers whose names hold a comma, and a double quote.
CommaOrder ==
    Order(6, <<"A", ",", "b">>, <<"c", "o", "@", "x">>, <<"4", "3">>, DayText(Feb10 + 4),
          "Morning", "Pending", IsoText(T0 + 3600))
QuoteOrder ==
    Order(7, <<"A", "\"", ",", "b">>, <<"q", "u", "@", "x">>, <<"4", "4">>, DayText(Feb10 + 4),
          "Night", "Pending", IsoText(T0 + 7200))

\* The Customer Emails view with its two export buttons, over tables that
\* hold such names.
InitCsv ==
    /\ store \in SUBSET (StartOrders \cup {CommaOrder, QuoteOrder})
    /\ view = "emails"
    /\ now = T0 + 2 * SecondsPerDay + 3600
    /\ tz = 0
    /\ InitViews
    /\ searchParams = NoParams

NextCsv ==
    \/ FetchEmails
    \/ SetCustSearch({ << >>, <<"A", "l">>, <<"@">> })
    \/ ExportCSV
    \/ CopyAll

SpecCsv == InitCsv /\ [][NextCsv]_vars

\* The variant with the dummy rows, over fewer tables and inputs.
NextEmailsDummy ==
    \/ FetchEmails
    \/ SetCustSearch({ << >>, <<"r", "a">> })
    \/ SetMinOrders
    \/ SetDateFrom({ << >>, DayText(Feb10) })
    \/ SetDateTo({ << >>, DayText(Feb10 + 2) })

SpecEmailsDummy == InitEmailsDummy /\ [][NextEmailsDummy]_vars

-----------------------------------------------------------------------------
(* Dashboard view: the query and the clock. *)

\* queryFn of ["all-orders-dashboard"] resolves and the component renders,
\* reading the clock at that moment.
FetchDashboard ==
    /\ view = "dashboard"
    /\ \E snapshot \in OrderByCreatedDesc(store) :
          /\ dashOrders' = snapshot
          /\ dashboard' = renderDashboard(snapshot, now, tz)
    /\ renders' = 0
    /\ UNCHANGED <<restVars, store, view, now, tz, ordersVars, emailVars>>

\* Time passes; nothing is rendered until the next data refresh.
Tick ==
    /\ view = "dashboard"
    /\ \E t \in Nows : t > now /\ now' = t
    /\ UNCHANGED <<restVars, store, view, tz, dashOrders, dashboard, ordersVars, emailVars, renders>>

NextDashboard ==
    \/ FetchDashboard
    \/ Tick

SpecDashboard == InitDashboard /\ [][NextDashboard]_vars


-----------------------------------------------------------------------------
(* Re-renders: a component function runs again on unchanged state and      *)
(* query data (a parent re-render, a query status change) and recomputes   *)
(* everything it derives.                                                  *)

RerenderOrders ==
    /\ view = "orders"
    /\ renders < MaxRenders
    /\ RenderOrders(orders, search, statusFilter, dateFilter, sortField, sortDir, page)
    /\ renders' = renders + 1
    /\ UNCHANGED <<restVars, ordersInvalidated, store, view, search, statusFilter, dateFilter, sortField, sortDir,
                   page, emailVars, dashVars>>

RerenderEmails ==
    /\ view \in {"emails", "emailsDummy"}
    /\ renders < MaxRenders
    /\ RenderEmails(emailOrders, custSearch, minOrders, dateFrom, dateTo)
    /\ renders' = renders + 1
    /\ UNCHANGED <<restVars, store, view, custSearch, minOrders, dateFrom, dateTo,
                   ordersVars, dashVars>>

\* The Dashboard reads the clock again on every render.
RerenderDashboard ==
    /\ view = "dashboard"
    /\ renders < MaxRenders
    /\ dashboard' = renderDashboard(dashOrders, now, tz)
    /\ renders' = renders + 1
    /\ UNCHANGED <<restVars, store, view, dashOrders, now, tz, ordersVars, emailVars>>

\* Any of the three pages, with handlers, clock and re-renders.
InitPure ==
    /\ \/ view = "orders" /\ store \in Tables \cup PagedTables
       \/ view = "emails" /\ store \in Tables
       \/ view = "dashboard" /\ store \in Tables
    /\ now = T0 + 2 * SecondsPerDay + 12 * 3600
    /\ tz \in (IF view = "dashboard" THEN {0, 19800} ELSE {0})
    /\ InitViews
    /\ searchParams = NoParams

NextPure ==
    \/ FetchOrders
    \/ SetSearch({ << >>, <<"A", "l">> })
    \/ SetStatusFilter({"all", "Pending"})
    \/ SetDateFilter({ << >>, DayText(Feb10 + 4) })
    \/ ToggleSort({"customer_name", "pickup_date"})
    \/ NextPage
    \/ PrevPage
    \/ RerenderOrders
    \/ FetchEmails
    \/ SetCustSearch({ << >>, <<"A", "l">> })
    \/ SetMinOrders
    \/ SetDateFrom({ << >>, DayText(Feb10 + 2) })
    \/ SetDateTo({ << >>, DayText(Feb10 + 2) })
    \/ RerenderEmails
    \/ FetchDashboard
    \/ Tick
    \/ RerenderDashboard

SpecPure == InitPure /\ [][NextPure]_vars

-----------------------------------------------------------------------------
(* The backend: row level security of public.flower_orders and the calls   *)
(* of the query client on it.                                              *)

\* public.has_role(_user_id, _role)
has_role(_user_id, _role) == <<_user_id, _role>> \in user_roles

\* A policy that admits every identity that has any role grant.
policyAnyRole(uid) == uid \in Identities /\ \E role \in {"admin", "moderator", "user"} : has_role(uid, role)

\* USING / WITH CHECK (public.has_role(auth.uid(), 'admin')) of a policy
\* that is granted TO authenticated.
policy(uid) == uid \in Identities /\ has_role(uid, "admin")

Ids(rows) == { r.id : r \in rows }
SeqIds(arr) == { arr[i].id : i \in 1..Len(arr) }

\* .select("*"): the rows the SELECT policy lets the caller see.
selectRows(rows, uid) == { r \in rows : policy(uid) }

\* An update that writes the value into the time slot column.
updateRowSlot(r, status) == [r EXCEPT !.time_slot = status]

\* .update({ status }) on one row.
updateRow(r, status) == [r EXCEPT !.status = status]

\* A filter that matches every row.
eqAny(r, id) == TRUE

\* .eq("id", id)
eqId(r, id) == r.id = id

\* An update that only lets a pending order change its status.
updateRowsPendingOnly(rows, uid, id, status) ==
    { IF eqId(r, id) /\ policy(uid) /\ r.status = "Pending" THEN updateRow(r, status) ELSE r
      : r \in rows }

\* .update({ status }).eq("id", id): the rows of the table afterwards.  The
\* UPDATE policy hides the rows from a caller it does not admit.
updateRows(rows, uid, id, status) ==
    { IF eqId(r, id) /\ policy(uid) THEN updateRow(r, status) ELSE r : r \in rows }

\* A delete that removes no row.
deleteNothing(rows, uid, id) == rows

\* .delete().eq("id", id): the rows of the table afterwards.
deleteRows(rows, uid, id) == { r \in rows : ~(eqId(r, id) /\ policy(uid)) }

Remove(arr, i) == SubSeq(arr, 1, i - 1) \o SubSeq(arr, i + 1, Len(arr))

\* The number of requests of a session that the backend has not answered.
InFlight(who) == Len(SelectSeq(requests, LAMBDA r : r.from = who))

\* SQLSTATE of "new row violates row-level security policy".
InsufficientPrivilege == "42501"

\* .insert(row): the rows of the table afterwards.  A row that fails the
\* WITH CHECK expression is not stored.
insertRows(rows, uid, row) == IF policy(uid) THEN rows \cup {row} ELSE rows

\* .select("*").order("created_at", { ascending: false }) by an
\* authenticated caller.  Rows that fail the USING expression are left out
\* of the result; the statement succeeds.
ApiList(callers) ==
    /\ \E uid \in callers :
          \E result \in OrderByCreatedDesc(selectRows(store, uid)) :
             response' = [caller |-> uid, op |-> "list", id |-> 0, error |-> "",
                          data |-> result]
    /\ UNCHANGED <<store, view, ordersVars, emailVars, dashVars, renders,
                   authVars, badgeVars, writeVars, user_roles, peerOrders>>

\* .insert(row) by an authenticated caller, for a row whose id is free.  A
\* row that fails the WITH CHECK expression makes the statement fail.
ApiInsert(callers, rows) ==
    /\ \E uid \in callers, row \in rows :
          /\ row.id \notin Ids(store)
          /\ store' = insertRows(store, uid, row)
          /\ response' = [caller |-> uid, op |-> "insert", id |-> row.id,
                          error |-> (IF policy(uid) THEN "" ELSE InsufficientPrivilege),
                          data |-> << >>]
    /\ UNCHANGED <<view, ordersVars, emailVars, dashVars, renders,
                   authVars, badgeVars, writeVars, user_roles, peerOrders>>

\* .update({ status }).eq("id", id) by an authenticated caller.  Rows that
\* fail the USING expression are not updated; the statement succeeds.
ApiUpdate(callers, ids, statuses) ==
    /\ \E uid \in callers, id \in ids, status \in statuses :
          /\ store' = updateRows(store, uid, id, status)
          /\ response' = [caller |-> uid, op |-> "update", id |-> id, error |-> "",
                          data |-> << >>]
    /\ UNCHANGED <<view, ordersVars, emailVars, dashVars, renders,
                   authVars, badgeVars, writeVars, user_roles, peerOrders>>

\* .delete().eq("id", id) by an authenticated caller.  Rows that fail the
\* USING expression are not deleted; the statement succeeds.
ApiDelete(callers, ids) ==
    /\ \E uid \in callers, id \in ids :
          /\ store' = deleteRows(store, uid, id)
          /\ response' = [caller |-> uid, op |-> "delete", id |-> id, error |-> "",
                          data |-> << >>]
    /\ UNCHANGED <<view, ordersVars, emailVars, dashVars, renders,
                   authVars, badgeVars, writeVars, user_roles, peerOrders>>

\* Calls of the three identities on a table of up to three rows, with no
\* page of the application involved.
InitStore ==
    /\ store \in SUBSET StartOrders
    /\ view = "none"
    /\ now = T0 + 2 * SecondsPerDay + 3600
    /\ tz = 0
    /\ InitOrdersView
    /\ InitEmailsView
    /\ InitDashboardView
    /\ renders = 0
    /\ loading = FALSE
    /\ user = ""
    /\ isAdmin = FALSE
    /\ layout = "unmounted"
    /\ route = "login"
    /\ InitIdle
    /\ searchParams = NoParams

NextStore ==
    \/ ApiList(Identities)
    \/ ApiInsert(Identities, { o \in SampleOrders : o.id \in 1..3 })
    \/ ApiUpdate(Identities, 1..3, {"Completed"})
    \/ ApiDelete(Identities, 1..3)

SpecStore == InitStore /\ [][NextStore]_vars

-----------------------------------------------------------------------------
(* Orders view: the delete dialog and the two mutations. *)

\* onClick of the Trash2 button of a row of the page: its AlertDialog
\* opens.  The dialog is modal: no other trigger can be clicked while one
\* is open.
OpenDeleteDialog ==
    /\ view = "orders"
    /\ dialog = 0
    /\ \E i \in 1..Len(paginated) : dialog' = paginated[i].id
    /\ UNCHANGED <<restVars, store, view, orders, search, statusFilter, dateFilter,
                   sortField, sortDir, page, filtered, totalPages, paginated,
                   ordersInvalidated, emailVars, dashVars, renders>>

\* AlertDialogCancel
CancelDelete ==
    /\ view = "orders"
    /\ dialog # 0
    /\ dialog' = 0
    /\ UNCHANGED <<restVars, store, view, orders, search, statusFilter, dateFilter,
                   sortField, sortDir, page, filtered, totalPages, paginated,
                   ordersInvalidated, emailVars, dashVars, renders>>

\* A Delete button that sends the id of the first row of the page.
ConfirmDeleteFirstRow ==
    /\ view = "orders"
    /\ dialog # 0
    /\ InFlight("self") < MaxInFlight
    /\ requests' = Append(requests,
                          [from |-> "self", kind |-> "delete", id |-> paginated[1].id,
                           status |-> ""])
    /\ dialog' = 0
    /\ UNCHANGED <<store, view, orders, search, statusFilter, dateFilter,
                   sortField, sortDir, page, filtered, totalPages, paginated,
                   ordersInvalidated, emailVars, dashVars, renders,
                   authVars, badgeVars, settled, toast, document, backendVars>>

\* AlertDialogAction onClick: deleteOrder.mutate(order.id); the dialog closes.
ConfirmDelete ==
    /\ view = "orders"
    /\ dialog # 0
    /\ InFlight("self") < MaxInFlight
    /\ requests' = Append(requests,
                          [from |-> "self", kind |-> "delete", id |-> dialog, status |-> ""])
    /\ dialog' = 0
    /\ UNCHANGED <<store, view, orders, search, statusFilter, dateFilter,
                   sortField, sortDir, page, filtered, totalPages, paginated,
                   ordersInvalidated, emailVars, dashVars, renders,
                   authVars, badgeVars, settled, toast, document, backendVars>>

\* deleteOrder: the backend answers a delete request of this session.  On
\* success (ok) onSuccess invalidates ["admin-orders"] and
\* ["pending-orders-count"] and shows a toast; an error is thrown by
\* mutationFn and nothing handles it.  outcomes: the answers the backend
\* may give.
SettleDelete(outcomes) ==
    \E i \in 1..Len(requests), ok \in outcomes :
       LET r == requests[i]
       IN /\ r.from = "self" /\ r.kind = "delete"
          /\ requests' = Remove(requests, i)
          /\ settled' = [kind |-> "delete", id |-> r.id, status |-> "", ok |-> ok]
          /\ IF ok
             THEN /\ store' = deleteRows(store, user, r.id)
                  /\ ordersInvalidated' = TRUE
                  /\ badgeInvalidated' = TRUE
                  /\ toast' = "Order deleted"
             ELSE UNCHANGED <<store, ordersInvalidated, badgeInvalidated, toast>>
          /\ UNCHANGED <<view, orders, search, statusFilter, dateFilter, sortField,
                         sortDir, page, filtered, totalPages, paginated, dialog,
                         emailVars, dashVars, renders,
                         authVars, pendingCount, pendingMatched, document, backendVars>>

\* onValueChange of the status Select of a row of the page (it fires when
\* another item than the shown one is chosen): updateStatus.mutate.  ids:
\* the orders whose Select the operator uses.
UpdateStatus(ids, statuses) ==
    /\ view = "orders"
    /\ InFlight("self") < MaxInFlight
    /\ \E i \in 1..Len(paginated), v \in statuses :
          /\ paginated[i].id \in ids
          /\ v # paginated[i].status
          /\ requests' = Append(requests,
                                [from |-> "self", kind |-> "update",
                                 id |-> paginated[i].id, status |-> v])
    /\ UNCHANGED <<store, view, ordersVars, emailVars, dashVars, renders,
                   authVars, badgeVars, settled, toast, document, backendVars>>

\* An update that invalidates the queries whatever the answer is.
SettleUpdateInvalidateFirst(outcomes) ==
    \E i \in 1..Len(requests), ok \in outcomes :
       LET r == requests[i]
       IN /\ r.from = "self" /\ r.kind = "update"
          /\ requests' = Remove(requests, i)
          /\ settled' = [kind |-> "update", id |-> r.id, status |-> r.status, ok |-> ok]
          /\ ordersInvalidated' = TRUE
          /\ badgeInvalidated' = TRUE
          /\ IF ok
             THEN /\ store' = updateRows(store, user, r.id, r.status)
                  /\ toast' = "Status updated"
             ELSE UNCHANGED <<store, toast>>
          /\ UNCHANGED <<view, orders, search, statusFilter, dateFilter, sortField,
                         sortDir, page, filtered, totalPages, paginated, dialog,
                         emailVars, dashVars, renders,
                         authVars, pendingCount, pendingMatched, document, backendVars>>

\* updateStatus: the backend answers an update request of this session.  The
\* call succeeds whether or not a row has the id.
SettleUpdate(outcomes) ==
    \E i \in 1..Len(requests), ok \in outcomes :
       LET r == requests[i]
       IN /\ r.from = "self" /\ r.kind = "update"
          /\ requests' = Remove(requests, i)
          /\ settled' = [kind |-> "update", id |-> r.id, status |-> r.status, ok |-> ok]
          /\ IF ok
             THEN /\ store' = updateRows(store, user, r.id, r.status)
                  /\ ordersInvalidated' = TRUE
                  /\ badgeInvalidated' = TRUE
                  /\ toast' = "Status updated"
             ELSE UNCHANGED <<store, ordersInvalidated, badgeInvalidated, toast>>
          /\ UNCHANGED <<view, orders, search, statusFilter, dateFilter, sortField,
                         sortDir, page, filtered, totalPages, paginated, dialog,
                         emailVars, dashVars, renders,
                         authVars, pendingCount, pendingMatched, document, backendVars>>

-----------------------------------------------------------------------------
(* AdminLayout: the pending-count badge and the sidebar. *)

\* queryFn of ["pending-orders-count"] (enabled: isAdmin; refetchInterval
\* 30000; invalidated by the mutations): count ?? 0, so 0 when the call fails.
FetchBadge(outcomes) ==
    /\ layout # "unmounted"
    /\ isAdmin
    /\ \E ok \in outcomes :
          LET matched == { r \in selectRows(store, user) : r.status = "Pending" }
          IN /\ pendingMatched' = (IF ok THEN Ids(matched) ELSE {})
             /\ pendingCount' = (IF ok THEN Cardinality(matched) ELSE 0)
    /\ badgeInvalidated' = FALSE
    /\ UNCHANGED <<store, view, ordersVars, emailVars, dashVars, renders,
                   authVars, writeVars, backendVars>>

\* The state one page holds or derives; what is not the query cache.
pageVars == <<view, orders, search, statusFilter, dateFilter, sortField, sortDir,
              page, filtered, totalPages, paginated, dialog,
              custSearch, minOrders, dateFrom, dateTo, customers, custFiltered,
              dashboard, renders>>

\* The Outlet mounts page v ("none": nothing).  A page that is unmounted
\* loses its state; the query cache keeps the fetched data and the new page
\* renders it with the defaults of its useState hooks.
ShowPage(v) ==
    /\ view' = v
    /\ search' = << >> /\ statusFilter' = "all" /\ dateFilter' = << >>
    /\ sortField' = "created_at" /\ sortDir' = "desc" /\ page' = 0
    /\ IF v = "orders"
       THEN RenderOrders(orders, << >>, "all", << >>, "created_at", "desc", 0)
       ELSE /\ filtered' = << >> /\ totalPages' = 0 /\ paginated' = << >>
            /\ dialog' = 0
            /\ orders' = orders
    /\ custSearch' = << >> /\ minOrders' = AllText
    /\ dateFrom' = << >> /\ dateTo' = << >>
    /\ customers' = (IF v = "emails" THEN customersMemo(emailOrders) ELSE << >>)
    /\ custFiltered' = filterCustomers(customers', << >>, AllText, << >>, << >>)
    /\ dashboard' = (IF v = "dashboard" THEN renderDashboard(dashOrders, now, tz)
                     ELSE << >>)
    /\ renders' = 0

ProtectedRoutes == {"dashboard", "orders", "emails"}

\* A NavLink of the sidebar: the router mounts another page.
Navigate ==
    /\ layout = "content"
    /\ \E v \in ProtectedRoutes \ {view} :
          /\ route' = v
          /\ ShowPage(v)
    /\ UNCHANGED <<store, ordersInvalidated, emailOrders, customersDummy,
                   custFilteredDummy, dashOrders, now, tz,
                   loading, user, isAdmin, layout, searchParams, formVars,
                   badgeVars, writeVars, backendVars>>

-----------------------------------------------------------------------------
(* AdminLayout: the guards in front of the Outlet. *)

\* The guards without the check of isAdmin.
guardUserOnly(isLoading, who, admin) ==
    IF isLoading THEN "spinner"
    ELSE IF who = "" THEN "/admin/login"
    ELSE "content"

\* What AdminLayout returns: the spinner, a <Navigate to="/admin/login">,
\* or the sidebar, header and Outlet.
guard(isLoading, who, admin) ==
    IF isLoading THEN "spinner"
    ELSE IF who = "" THEN "/admin/login"
    ELSE IF ~admin THEN "/admin/login"
    ELSE "content"

\* AdminLayout renders with the given auth state, if the route is one of
\* its routes; a page that stays mounted keeps its state.
RenderLayout(isLoading, who, admin, location) ==
    IF location \notin ProtectedRoutes
    THEN /\ layout' = "unmounted"
         /\ IF view = "none" THEN UNCHANGED pageVars ELSE ShowPage("none")
    ELSE /\ layout' = guard(isLoading, who, admin)
         /\ IF layout' = "content"
            THEN IF view = location THEN UNCHANGED pageVars ELSE ShowPage(location)
            ELSE IF view = "none" THEN UNCHANGED pageVars ELSE ShowPage("none")

\* What no action of the session provider or the router changes.
authFrame == <<formVars, searchParams, store, ordersInvalidated, emailOrders, customersDummy,
               custFilteredDummy, dashOrders, now, tz,
               badgeVars, writeVars, backendVars>>

\* The session provider finishes restoring the session of the browser.
AuthResolve ==
    /\ loading
    /\ user = ""
    /\ \E who \in {""} \cup Identities :
          /\ user' = who
          /\ isAdmin' = has_role(who, "admin")
          /\ loading' = FALSE
          /\ RenderLayout(FALSE, who, isAdmin', route)
    /\ UNCHANGED <<route, authFrame>>

\* handleSubmit of AdminLogin with accepted credentials: signIn, then
\* navigate("/admin/dashboard").  The role of the identity is looked up
\* afterwards.
SignIn ==
    /\ route = "login"
    /\ ~loading
    /\ \E who \in Identities, busy \in BOOLEAN :
          /\ user' = who
          /\ isAdmin' = FALSE
          /\ loading' = busy
          /\ route' = "dashboard"
          /\ RenderLayout(busy, who, FALSE, "dashboard")
    /\ UNCHANGED authFrame

\* The session provider has looked up the role of the signed-in identity.
RoleChecked ==
    /\ user # ""
    /\ loading \/ isAdmin # has_role(user, "admin")
    /\ isAdmin' = has_role(user, "admin")
    /\ loading' = FALSE
    /\ RenderLayout(FALSE, user, isAdmin', route)
    /\ UNCHANGED <<user, route, authFrame>>

\* handleLogout of the sidebar: signOut(), then navigate("/admin/login").
SignOut ==
    /\ layout = "content"
    /\ user' = ""
    /\ isAdmin' = FALSE
    /\ route' = "login"
    /\ RenderLayout(loading, "", FALSE, "login")
    /\ UNCHANGED <<loading, authFrame>>

\* The <Navigate> element AdminLayout returned takes effect.
FollowRedirect ==
    /\ layout = "/admin/login"
    /\ route' = "login"
    /\ RenderLayout(loading, user, isAdmin, "login")
    /\ UNCHANGED <<loading, user, isAdmin, authFrame>>

\* The browser is sent to a route of the layout (address bar, link, reload
\* of the application is not modelled: the session is kept).
OpenRoute ==
    /\ \E location \in ProtectedRoutes \ {route} :
          /\ layout \in {"unmounted", "spinner"}
          /\ route' = location
          /\ RenderLayout(loading, user, isAdmin, location)
    /\ UNCHANGED <<loading, user, isAdmin, authFrame>>

\* What handleSubmit and its continuations leave alone while the login page
\* stays on the screen.
loginFrame == <<store, view, ordersVars, emailVars, dashVars, renders,
                loading, user, isAdmin, layout, route, searchParams,
                badgeVars, writeVars, backendVars>>

\* What a sign-in that did not navigate leaves alone.
sessionFrame == <<searchParams, store, ordersInvalidated, emailOrders, customersDummy,
                  custFilteredDummy, dashOrders, now, tz,
                  badgeVars, writeVars, backendVars>>

\* The call handleSubmit starts with: signUp in signup mode, signIn otherwise.
firstCall(isSignup) == IF isSignup THEN "signUp" ELSE "signIn"

\* The sequence calls without its i-th element.
dropCall(calls, i) == SubSeq(calls, 1, i - 1) \o SubSeq(calls, i + 1, Len(calls))

\* The calls of a form that has just been unmounted: their handlers go on
\* running, their setState calls no longer reach a component.
orphaned(calls) == [ i \in 1..Len(calls) |-> [calls[i] EXCEPT !.live = FALSE] ]

\* A submit that leaves the message of the previous attempt on the screen.
HandleSubmitKeepError ==
    /\ route = "login"
    /\ ~loginForm.loading
    /\ Len(authCalls) <= MaxInFlight
    /\ loginForm' = [loginForm EXCEPT !.loading = TRUE]
    /\ authCalls' = Append(authCalls,
                           [kind |-> firstCall(loginForm.isSignup), live |-> TRUE])
    /\ UNCHANGED <<authAnswer, loginFrame>>

\* The form is submitted: the button is enabled only while loading is false.
\* setError(""), setLoading(true), then the first call is sent.
HandleSubmit ==
    /\ route = "login"
    /\ ~loginForm.loading
    /\ Len(authCalls) <= MaxInFlight
    /\ loginForm' = [loginForm EXCEPT !.error = "", !.loading = TRUE]
    /\ authCalls' = Append(authCalls,
                           [kind |-> firstCall(loginForm.isSignup), live |-> TRUE])
    /\ UNCHANGED <<authAnswer, loginFrame>>

\* The link under the button: setIsSignup(!isSignup); setError("").
ToggleSignup ==
    /\ route = "login"
    /\ loginForm' = [loginForm EXCEPT !.isSignup = ~loginForm.isSignup,
                                      !.error = ""]
    /\ UNCHANGED <<authCalls, authAnswer, loginFrame>>

\* supabase.auth.signUp answers: setLoading(false); with an error its message
\* is shown, without one the form returns to login mode and signIn is sent.
SignUpAnswered(errors) ==
    /\ \E i \in 1..Len(authCalls), err \in errors :
          /\ authCalls[i].kind = "signUp"
          /\ authAnswer' = [kind |-> "signUp", live |-> authCalls[i].live,
                            error |-> err]
          /\ IF err # ""
             THEN /\ authCalls' = dropCall(authCalls, i)
                  /\ loginForm' = IF authCalls[i].live
                                  THEN [loginForm EXCEPT !.loading = FALSE,
                                                        !.error = err]
                                  ELSE loginForm
             ELSE /\ authCalls' = Append(dropCall(authCalls, i),
                                         [kind |-> "autoSignIn",
                                          live |-> authCalls[i].live])
                  /\ loginForm' = IF authCalls[i].live
                                  THEN [loading |-> FALSE, error |-> "",
                                        isSignup |-> FALSE]
                                  ELSE loginForm
    /\ UNCHANGED loginFrame

AccountCreated ==
    "Account created! Please log in. (You need admin role to access the dashboard)"

\* The form after signIn answered with err ("": no error) to a call of kind
\* kind: the login branch sets loading to false and shows the error, the
\* branch after a signup shows its own text and leaves loading alone.
afterSignIn(form, kind, err) ==
    IF kind = "signIn"
    THEN [form EXCEPT !.loading = FALSE,
                      !.error = IF err # "" THEN err ELSE form.error]
    ELSE [form EXCEPT !.error = IF err # "" THEN AccountCreated ELSE form.error]

\* signIn answers.  With an error the form shows it; without one the session
\* provider holds the identity and navigate("/admin/dashboard") replaces the
\* login page, whose state is lost with it.
SignInAnswered(errors) ==
    /\ \E i \in 1..Len(authCalls), err \in errors :
          /\ authCalls[i].kind \in {"signIn", "autoSignIn"}
          /\ authAnswer' = [kind |-> authCalls[i].kind, live |-> authCalls[i].live,
                            error |-> err]
          /\ IF err # ""
             THEN /\ authCalls' = dropCall(authCalls, i)
                  /\ loginForm' = IF authCalls[i].live
                                  THEN afterSignIn(loginForm, authCalls[i].kind, err)
                                  ELSE loginForm
                  /\ UNCHANGED loginFrame
             ELSE /\ authCalls' = orphaned(dropCall(authCalls, i))
                  /\ loginForm' = FormDefaults
                  /\ \E who \in Identities, busy \in BOOLEAN :
                        /\ user' = who
                        /\ isAdmin' = FALSE
                        /\ loading' = busy
                        /\ route' = "dashboard"
                        /\ RenderLayout(busy, who, FALSE, "dashboard")
                  /\ UNCHANGED sessionFrame

\* The application is opened on some route; the session is being restored.
InitGuard ==
    /\ store = { o \in SampleOrders : o.id \in {1, 3} }
    /\ route \in ProtectedRoutes \cup {"login"}
    /\ view = "none"
    /\ now = T0 + 2 * SecondsPerDay + 3600
    /\ tz = 0
    /\ InitOrdersView
    /\ InitEmailsView
    /\ InitDashboardView
    /\ renders = 0
    /\ InitIdle
    /\ searchParams = NoParams
    /\ loading = TRUE
    /\ user = ""
    /\ isAdmin = FALSE
    /\ layout = (IF route = "login" THEN "unmounted" ELSE guard(TRUE, "", FALSE))

NextGuard ==
    \/ AuthResolve
    \/ SignIn
    \/ RoleChecked
    \/ SignOut
    \/ FollowRedirect
    \/ OpenRoute
    \/ Navigate
    \/ FetchOrders
    \/ FetchDashboard
    \/ FetchEmails
    \/ FetchBadge(BOOLEAN)

SpecGuard == InitGuard /\ [][NextGuard]_vars

\* The messages the authentication service answers with ("": no error).
SignUpErrors == {"", "User already registered"}
SignInErrors == {"", "Invalid login credentials"}

\* The login page is open; accounts are created and sessions are started.
InitLogin ==
    /\ InitGuard
    /\ route = "login"

NextLogin ==
    \/ AuthResolve
    \/ HandleSubmit
    \/ ToggleSignup
    \/ SignUpAnswered(SignUpErrors)
    \/ SignInAnswered(SignInErrors)
    \/ RoleChecked
    \/ SignOut
    \/ FollowRedirect

SpecLogin == InitLogin /\ [][NextLogin]_vars

\* An administrator's session that deletes orders and looks at every page.
InitReads ==
    /\ store = StartOrders
    /\ view = "orders"
    /\ now = T0 + 2 * SecondsPerDay + 3600
    /\ tz = 0
    /\ InitViews
    /\ searchParams = NoParams

NextReads ==
    \/ FetchOrders
    \/ FetchEmails
    \/ FetchDashboard
    \/ FetchBadge({TRUE})
    \/ Navigate
    \/ OpenDeleteDialog
    \/ CancelDelete
    \/ ConfirmDelete
    \/ SettleDelete(BOOLEAN)

\* The badge query is fetched again every 30 seconds.
SpecReads == InitReads /\ [][NextReads]_vars /\ WF_vars(FetchBadge({TRUE}))

\* The other administrator's session.
Peer == "dan"

\* queryFn of ["admin-orders"] resolves in the other session.
PeerFetch ==
    /\ \E snapshot \in OrderByCreatedDesc(selectRows(store, Peer)) :
          /\ snapshot # peerOrders
          /\ peerOrders' = snapshot
    /\ UNCHANGED <<store, view, ordersVars, emailVars, dashVars, renders,
                   authVars, badgeVars, writeVars, user_roles, response>>

\* The status Select of a row of the other session's snapshot:
\* updateStatus.mutate
PeerUpdate(ids, statuses) ==
    /\ InFlight("peer") < MaxInFlight
    /\ \E i \in 1..Len(peerOrders), v \in statuses :
          /\ peerOrders[i].id \in ids
          /\ v # peerOrders[i].status
          /\ requests' = Append(requests,
                                [from |-> "peer", kind |-> "update",
                                 id |-> peerOrders[i].id, status |-> v])
    /\ UNCHANGED <<store, view, ordersVars, emailVars, dashVars, renders,
                   authVars, badgeVars, settled, toast, document, backendVars>>

\* The backend answers an update request of the other session.
SettlePeer(outcomes) ==
    \E i \in 1..Len(requests), ok \in outcomes :
       LET r == requests[i]
       IN /\ r.from = "peer" /\ r.kind = "update"
          /\ requests' = Remove(requests, i)
          /\ response' = [caller |-> Peer, op |-> "update", id |-> r.id,
                          error |-> (IF ok THEN "" ELSE "error"), data |-> << >>]
          /\ store' = (IF ok THEN updateRows(store, Peer, r.id, r.status) ELSE store)
          /\ UNCHANGED <<view, ordersVars, emailVars, dashVars, renders,
                         authVars, badgeVars, settled, toast, document,
                         user_roles, peerOrders>>

\* Two administrators work on the same table of two orders, each from its
\* own snapshot, and both change the status of order 1.
InitPeers ==
    /\ store = StartOrders
    /\ view = "orders"
    /\ now = T0 + 2 * SecondsPerDay + 3600
    /\ tz = 0
    /\ InitViews
    /\ searchParams = NoParams

NextPeers ==
    \/ FetchOrders
    \/ UpdateStatus({1, 3}, {"Completed", "Pending"})
    \/ SettleUpdate({TRUE})
    \/ PeerFetch
    \/ PeerUpdate({1}, {"Cancelled"})
    \/ SettlePeer({TRUE})

SpecPeers == InitPeers /\ [][NextPeers]_vars

\* The Orders view of one administrator who updates and deletes.
InitWrites ==
    /\ store = { o \in StartOrders : o.id = 1 }
    /\ view = "orders"
    /\ now = T0 + 2 * SecondsPerDay + 3600
    /\ tz = 0
    /\ InitViews
    /\ searchParams = NoParams

NextWrites ==
    \/ FetchOrders
    \/ UpdateStatus({1}, OrderStatus)
    \/ SettleUpdate(BOOLEAN)
    \/ OpenDeleteDialog
    \/ CancelDelete
    \/ ConfirmDelete
    \/ SettleDelete(BOOLEAN)

SpecWrites == InitWrites /\ [][NextWrites]_vars

\* An administrator pages through a table of two pages, deletes rows of the
\* later page and changes filters and the sort order.
InitShrink ==
    /\ store = GenTable(MaxOrders - PAGE_SIZE)
    /\ view = "orders"
    /\ now = T0 + 2 * SecondsPerDay + 3600
    /\ tz = 0
    /\ InitViews
    /\ searchParams = NoParams

NextShrink ==
    \/ FetchOrders
    \/ SetStatusFilter({"all", "Pending"})
    \/ ToggleSort({"created_at"})
    \/ NextPage
    \/ PrevPage
    \/ (page > 0 /\ OpenDeleteDialog)
    \/ CancelDelete
    \/ ConfirmDelete
    \/ SettleDelete(BOOLEAN)

SpecShrink == InitShrink /\ [][NextShrink]_vars

-----------------------------------------------------------------------------
(* Properties of the Orders view. *)

Range(arr) == { arr[i] : i \in 1..Len(arr) }

NoDuplicates(arr) == Cardinality(Range(arr)) = Len(arr)

\* The position of row o in the fetched snapshot.
FetchPos(o) == CHOOSE i \in 1..Len(orders) : orders[i] = o

\* The search text occurs in the name or e-mail (case-folded) or in the phone.
SearchHit(o) ==
    LET q == toLowerCase(search)
    IN \/ includes(toLowerCase(o.customer_name), q)
       \/ includes(toLowerCase(o.email), q)
       \/ includes(o.phone_number, q)

\* The orders of the snapshot that pass the three filters.
Passing ==
    { o \in Range(orders) :
        /\ search = << >> \/ SearchHit(o)
        /\ statusFilter = "all" \/ o.status = statusFilter
        /\ dateFilter = << >> \/ o.pickup_date = dateFilter }

\* C1: the filtered array holds each order of the snapshot that passes the
\* search, status and pickup-date predicates exactly once, and nothing else;
\* "all", an empty date and an empty search text constrain nothing.
C1_FilterSoundComplete ==
    /\ Range(filtered) = Passing
    /\ NoDuplicates(filtered)
    /\ Range(filtered) \subseteq Range(orders)

\* All three filters are set, and they keep some orders and drop others.
C1_Witness ==
    /\ search # << >> /\ statusFilter # "all" /\ dateFilter # << >>
    /\ filtered # << >>
    /\ Len(filtered) < Len(orders)
    /\ \E o \in Range(orders) : SearchHit(o) /\ o.status # statusFilter
    /\ \E o \in Range(orders) : SearchHit(o) /\ o.pickup_date # dateFilter

\* The pages 0 .. n-1 of the filtered array, one after the other.
RECURSIVE ConcatPages(_)
ConcatPages(n) ==
    IF n = 0 THEN << >>
    ELSE ConcatPages(n - 1) \o slice(filtered, (n - 1) * PAGE_SIZE, n * PAGE_SIZE)

\* C2: totalPages is ceil(N / 10); the page shown is the rows
\* [page*10, page*10 + 10) of the sorted filtered array, at most 10 of them;
\* the pages 0 .. totalPages-1 one after the other are that array, each order
\* once.
C2_Pagination ==
    LET n == Len(filtered)
        first == page * PAGE_SIZE
    IN /\ totalPages * PAGE_SIZE >= n
       /\ (totalPages - 1) * PAGE_SIZE < n
       /\ Len(paginated) <= PAGE_SIZE
       /\ Len(paginated) = (IF n - first >= PAGE_SIZE THEN PAGE_SIZE
                            ELSE IF n > first THEN n - first ELSE 0)
       /\ \A k \in 1..Len(paginated) : paginated[k] = filtered[first + k]
       /\ ConcatPages(totalPages) = filtered
       /\ NoDuplicates(ConcatPages(totalPages))

\* The last of at least three pages is shown, and it is not full.
C2_Witness ==
    /\ totalPages >= 3
    /\ page = totalPages - 1
    /\ paginated # << >>
    /\ Len(paginated) < PAGE_SIZE

\* a's sort key is below b's: instants for the two date fields, the
\* lower-cased name, the raw phone number and slot label.
KeyBelow(a, b, field) ==
    CASE field = "created_at"    -> getTime(a.created_at) < getTime(b.created_at)
      [] field = "pickup_date"   -> getTime(a.pickup_date) < getTime(b.pickup_date)
      [] field = "customer_name" -> StrLess(toLowerCase(a.customer_name),
                                            toLowerCase(b.customer_name))
      [] field = "phone_number"  -> StrLess(a.phone_number, b.phone_number)
      [] field = "time_slot"     -> StrLess(SlotText(a.time_slot), SlotText(b.time_slot))

SameKey(a, b, field) == ~KeyBelow(a, b, field) /\ ~KeyBelow(b, a, field)

\* Orders of equal key stand in the order the snapshot has them.
TiesInFetchOrder(arr, field) ==
    \A i, j \in 1..Len(arr) :
        (i < j /\ SameKey(arr[i], arr[j], field)) => FetchPos(arr[i]) < FetchPos(arr[j])

\* C3: the filtered array is a permutation of the passing orders, ordered by
\* the key of sortField in the direction sortDir, and orders of equal key
\* keep their fetch order.
C3_SortedStable ==
    /\ Range(filtered) = Passing
    /\ NoDuplicates(filtered)
    /\ \A i, j \in 1..Len(filtered) :
          i < j => IF sortDir = "asc"
                   THEN ~KeyBelow(filtered[j], filtered[i], sortField)
                   ELSE ~KeyBelow(filtered[i], filtered[j], sortField)
    /\ TiesInFetchOrder(filtered, sortField)

\* Three or more rows sorted on another field than the fetch order's, two of
\* them with equal keys and one pair out of fetch order.
C3_Witness ==
    /\ sortField # "created_at"
    /\ Len(filtered) >= 3
    /\ \E i, j \in 1..Len(filtered) :
          i < j /\ SameKey(filtered[i], filtered[j], sortField)
    /\ \E i, j \in 1..Len(filtered) :
          i < j /\ FetchPos(filtered[i]) > FetchPos(filtered[j])

\* A step that flips sortDir and changes nothing else the pipeline reads.
DirectionFlipped ==
    /\ sortDir' # sortDir
    /\ sortField' = sortField
    /\ orders' = orders
    /\ search' = search /\ statusFilter' = statusFilter /\ dateFilter' = dateFilter

DistinctKeys(arr, field) ==
    \A i, j \in 1..Len(arr) : i # j => ~SameKey(arr[i], arr[j], field)

\* C4 as claimed: flipping the direction shows the exact reverse of the
\* sequence shown before, also when orders have equal keys.
C4_ReversalAlways ==
    [][DirectionFlipped => filtered' = Reverse(filtered)]_vars

\* C4 as amended: flipping the direction shows the exact reverse when no two
\* shown orders have equal keys; orders of equal key keep their fetch order
\* in both directions.
C4_ReversalDistinctKeys ==
    [][DirectionFlipped =>
          /\ DistinctKeys(filtered, sortField) => filtered' = Reverse(filtered)
          /\ TiesInFetchOrder(filtered, sortField)
          /\ TiesInFetchOrder(filtered', sortField)]_vars

\* The direction was flipped to ascending on three or more orders of
\* pairwise distinct keys.
C4_Witness ==
    /\ sortDir = "asc"
    /\ Len(filtered) >= 3
    /\ DistinctKeys(filtered, sortField)


-----------------------------------------------------------------------------
(* Properties of the customer aggregation. *)

\* The orders of the e-mail snapshot that carry the given e-mail.
OrdersOf(email) == { k \in 1..Len(emailOrders) : emailOrders[k].email = email }

\* C5: one row per distinct e-mail of the order set, no e-mail twice, each
\* row counting the orders of its e-mail.
C5_RowPerEmail ==
    /\ Len(customers) = Cardinality({ o.email : o \in Range(emailOrders) })
    /\ \A i, j \in 1..Len(customers) :
          i # j => customers[i].email # customers[j].email
    /\ \A i \in 1..Len(customers) :
          /\ customers[i].count = Cardinality(OrdersOf(customers[i].email))
          /\ customers[i].count >= 1

\* Several customers, one of them with several orders.
C5_Witness ==
    /\ Len(customers) >= 2
    /\ Len(emailOrders) > Len(customers)
    /\ \E i \in 1..Len(customers) : customers[i].count >= 2

\* C6: whatever the iteration order, a row's lastDate is the latest creation
\* instant among the orders of its e-mail, and its name is the name of an
\* order created at that instant.
C6_LatestDateAndName ==
    \A i \in 1..Len(customers) :
        \E k \in OrdersOf(customers[i].email) :
            /\ customers[i].lastDate = emailOrders[k].created_at
            /\ customers[i].name = emailOrders[k].customer_name
            /\ \A m \in OrdersOf(customers[i].email) :
                  getTime(emailOrders[m].created_at) <= getTime(emailOrders[k].created_at)

\* The newest order of an e-mail was iterated before an older one that has
\* another name.
C6_Witness ==
    \E k, m \in 1..Len(emailOrders) :
        /\ k < m
        /\ emailOrders[k].email = emailOrders[m].email
        /\ emailOrders[k].customer_name # emailOrders[m].customer_name
        /\ getTime(emailOrders[k].created_at) > getTime(emailOrders[m].created_at)
        /\ \E i \in 1..Len(customers) :
              /\ customers[i].email = emailOrders[k].email
              /\ customers[i].count >= 2

\* C7 as claimed: the variant with the dummy rows shows one row per distinct
\* e-mail of the order set and no row for an e-mail no order has.
C7_DummyRowPerOrderEmail ==
    /\ Len(customersDummy) = Cardinality({ o.email : o \in Range(emailOrders) })
    /\ \A i \in 1..Len(customersDummy) : OrdersOf(customersDummy[i].email) # {}

\* Row c passes the search, minimum and date-range conditions, the range
\* taken from the first instant of dateFrom to the last instant of dateTo.
InRangeCustomer(c) ==
    /\ \/ custSearch = << >>
       \/ includes(toLowerCase(c.email), toLowerCase(custSearch))
       \/ includes(toLowerCase(c.name), toLowerCase(custSearch))
    /\ minOrders = AllText \/ c.count >= parseInt(minOrders)
    /\ dateFrom = << >> \/ getTime(c.lastDate) >= getTime(dateFrom)
    /\ dateTo = << >> \/ getTime(c.lastDate) < getTime(dateTo) + SecondsPerDay

\* C23: a customer row is shown iff it passes the search, the minimum and
\* the date range, the dateTo day included up to its last instant.
C23_CustomerFilter ==
    \A i \in 1..Len(customers) :
       (\E j \in 1..Len(custFiltered) : custFiltered[j] = customers[i])
          <=> InRangeCustomer(customers[i])

\* The pieces of text between the occurrences of the character sep.
RECURSIVE SplitAt(_, _, _)
SplitAt(text, sep, cur) ==
    IF text = << >> THEN <<cur>>
    ELSE IF Head(text) = sep THEN <<cur>> \o SplitAt(Tail(text), sep, << >>)
    ELSE SplitAt(Tail(text), sep, Append(cur, Head(text)))

\* The fields a CSV reader takes from one line: a comma outside quotes ends
\* a field, a double quote opens or closes a quoted part, and two double
\* quotes inside a quoted part stand for one.
RECURSIVE CsvFields(_, _, _)
CsvFields(line, quoted, cur) ==
    IF line = << >> THEN <<cur>>
    ELSE IF quoted
         THEN IF Head(line) = "\""
              THEN IF Len(line) > 1 /\ line[2] = "\""
                   THEN CsvFields(Tail(Tail(line)), TRUE, Append(cur, "\""))
                   ELSE CsvFields(Tail(line), FALSE, cur)
              ELSE CsvFields(Tail(line), TRUE, Append(cur, Head(line)))
         ELSE IF Head(line) = "," THEN <<cur>> \o CsvFields(Tail(line), FALSE, << >>)
              ELSE IF Head(line) = "\"" THEN CsvFields(Tail(line), TRUE, cur)
              ELSE CsvFields(Tail(line), FALSE, Append(cur, Head(line)))

\* The lines of the CSV file d are the header and one line per row of
\* rows, in order, each reading as e-mail, name, count and day.
CsvLists(d, rows) ==
    LET lines == SplitAt(d.body, "\n", << >>)
    IN /\ lines[1] \o <<"\n">> = CsvHeader
       /\ Len(lines) = 1 + (IF rows = << >> THEN 1 ELSE Len(rows))
       /\ rows = << >> => lines[2] = << >>
       /\ \A i \in 1..Len(rows) :
             CsvFields(lines[i + 1], FALSE, << >>) =
                <<rows[i].email, rows[i].name, numText(rows[i].count),
                  DayText(LocalDay(getTime(rows[i].lastDate), tz))>>

\* C24: the CSV file is the header and one line of four fields (e-mail,
\* name, count, day) per shown customer, in the shown order, whatever the
\* name holds; the copied text is the shown e-mails joined by ", ".
C24_CsvAndCopy ==
    [][ document' # document =>
          /\ document'.kind = "csv" => CsvLists(document', custFiltered)
          /\ document'.kind = "clipboard" =>
                /\ document'.body = join([i \in 1..Len(custFiltered) |-> custFiltered[i].email],
                                         <<",", " ">>)
                /\ document'.count = Len(custFiltered) ]_vars

\* The same statement for tables in which no name holds a double quote.
CsvHoldsWithoutQuotes ==
    [][ (document' # document /\ \A o \in store : ~includes(o.customer_name, <<"\"">>)) =>
          /\ document'.kind = "csv" => CsvLists(document', custFiltered)
          /\ document'.kind = "clipboard" =>
                document'.body = join([i \in 1..Len(custFiltered) |-> custFiltered[i].email],
                                      <<",", " ">>) ]_vars

-----------------------------------------------------------------------------
(* Properties of the dashboard. *)

\* The calendar day the last render took for today.
RenderedToday == DateDay(dashboard.todayStr)

\* The orders of the dashboard snapshot created on local calendar day d.
CreatedOn(d) ==
    { k \in 1..Len(dashOrders) : LocalDay(getTime(dashOrders[k].created_at), tz) = d }

RECURSIVE SumOrders(_, _)
SumOrders(points, n) ==
    IF n = 0 THEN 0 ELSE SumOrders(points, n - 1) + points[n].orders

\* C8: the daily series has 14 points, point i (from 0) is day today-13+i,
\* and counts the orders created on that local calendar day; the counts sum
\* to at most the number of orders; an empty snapshot gives 14 zeros.
C8_DailySeries ==
    view = "dashboard" =>
        LET points == dashboard.lineData
        IN /\ Len(points) = 14
           /\ \A k \in 1..14 :
                 LET d == RenderedToday - 13 + (k - 1)
                 IN /\ points[k].date = formatMMMd(d * SecondsPerDay, 0)
                    /\ points[k].orders = Cardinality(CreatedOn(d))
           /\ SumOrders(points, 14) <= dashboard.total
           /\ dashOrders = << >> => \A k \in 1..14 : points[k].orders = 0

\* An order on the last day of the series, and one that is outside the
\* series only in the viewer's zone: its UTC day is the first day.
C8_Witness ==
    /\ view = "dashboard"
    /\ dashboard.lineData[14].orders >= 1
    /\ SumOrders(dashboard.lineData, 14) < dashboard.total
    /\ \E k \in 1..Len(dashOrders) :
          /\ LocalDay(getTime(dashOrders[k].created_at), 0) = RenderedToday - 13
          /\ LocalDay(getTime(dashOrders[k].created_at), tz) = RenderedToday - 14

\* C9: the four summary counts; pending and today's pickups are counted
\* independently of each other.
C9_SummaryCounts ==
    view = "dashboard" =>
        LET rows == 1..Len(dashOrders)
            pendingRows == { k \in rows : dashOrders[k].status = "Pending" }
            completedRows == { k \in rows : dashOrders[k].status = "Completed" }
            todayRows == { k \in rows : DateDay(dashOrders[k].pickup_date) = RenderedToday }
        IN /\ dashboard.total = Len(dashOrders)
           /\ dashboard.pending = Cardinality(pendingRows)
           /\ dashboard.completed = Cardinality(completedRows)
           /\ dashboard.todayPickups = Cardinality(todayRows)
           /\ dashboard.pending + dashboard.completed <= dashboard.total

\* Today's pickups hold a pending order and one that is not pending, and
\* another pending order is picked up on another day.
C9_Witness ==
    /\ view = "dashboard"
    /\ \E k \in 1..Len(dashOrders) :
          dashOrders[k].status = "Pending" /\ dashOrders[k].pickup_date = dashboard.todayStr
    /\ \E k \in 1..Len(dashOrders) :
          dashOrders[k].status # "Pending" /\ dashOrders[k].pickup_date = dashboard.todayStr
    /\ \E k \in 1..Len(dashOrders) :
          dashOrders[k].status = "Pending" /\ dashOrders[k].pickup_date # dashboard.todayStr

-----------------------------------------------------------------------------
(* Purity of the derived data. *)

\* The query data of the three pages.
Snapshots == <<orders, emailOrders, dashOrders>>

\* What the Orders and Customer Emails renders derive.
Derived == <<filtered, totalPages, paginated, customers, custFiltered,
             customersDummy, custFilteredDummy>>

\* The state the handlers set.
Inputs == <<search, statusFilter, dateFilter, sortField, sortDir, page,
            custSearch, minOrders, dateFrom, dateTo>>

\* C10: computing again on the same snapshot and the same inputs (for the
\* dashboard: on the same today) gives the same output, and neither a
\* computation on unchanged inputs nor one a handler causes writes the
\* snapshot.
C10_PureRecomputation ==
    [][ /\ renders' = renders + 1 =>
              /\ Snapshots' = Snapshots
              /\ Derived' = Derived
              /\ (view = "dashboard" /\ format(now, tz) = dashboard.todayStr)
                    => dashboard' = dashboard
        /\ Inputs' # Inputs => Snapshots' = Snapshots ]_vars

\* The Orders view has rendered again a page of orders it had filtered and
\* put in another order than the snapshot's.
C10_Witness ==
    /\ view = "orders"
    /\ renders >= 1
    /\ Len(filtered) >= 2
    /\ Len(filtered) < Len(orders)
    /\ \E i, j \in 1..Len(filtered) :
          i < j /\ FetchPos(filtered[i]) > FetchPos(filtered[j])

\* The orders of the dashboard snapshot with the given time slot.
InSlot(slot) == { k \in 1..Len(dashOrders) : dashOrders[k].time_slot = slot }

\* C25: the dashboard shows three slot counts, named Morning, Evening and
\* Night in this order, each the number of orders of the snapshot with that
\* slot, and together they count every order.
C25_SlotCounts ==
    LET c == dashboard.slotCounts
    IN /\ Len(c) = 3
       /\ <<c[1].name, c[2].name, c[3].name>> = <<"Morning", "Evening", "Night">>
       /\ \A k \in 1..3 : c[k].value = Cardinality(InSlot(c[k].name))
       /\ c[1].value + c[2].value + c[3].value = Len(dashOrders)
       /\ dashboard.total = Len(dashOrders)

\* Four orders, two in the morning, one in the evening and one at night.
C25_Witness ==
    /\ Len(dashOrders) = 4
    /\ dashboard.slotCounts[1].value = 2
    /\ dashboard.slotCounts[2].value = 1
    /\ dashboard.slotCounts[3].value = 1

-----------------------------------------------------------------------------
(* Properties of the mutations. *)

\* The ids the sample rows use.
SampleIds == Ids(SampleOrders)

\* The backend has reported that the delete of order id succeeded.
DeleteSucceeded(id) == settled.kind = "delete" /\ settled.ok /\ settled.id = id

\* C11: once a delete of an order has succeeded the table no longer holds
\* the order and never holds it again, every read that changes the order
\* list, the dashboard order set or the customer e-mail order set returns
\* rows of the table as it is then, and the badge eventually shows a count
\* whose query did not match the order.
C11_DeletedStaysGone ==
    /\ [](\A id \in SampleIds : DeleteSucceeded(id) => id \notin Ids(store))
    /\ [][ /\ Ids(store') \subseteq Ids(store)
           /\ orders' # orders => Range(orders') \subseteq store'
           /\ dashOrders' # dashOrders => Range(dashOrders') \subseteq store'
           /\ emailOrders' # emailOrders => Range(emailOrders') \subseteq store' ]_vars
    /\ \A id \in Ids(StartOrders) : DeleteSucceeded(id) ~> (id \notin pendingMatched)

\* The delete of a pending order that the cached order list still shows has
\* succeeded; the dashboard, read since, lists the other orders only and
\* the badge counts the other pending order only.
C11_Witness ==
    /\ \E id \in SampleIds : DeleteSucceeded(id)
    /\ settled.id \notin Ids(store)
    /\ view = "dashboard"
    /\ dashOrders # << >>
    /\ settled.id \notin SeqIds(dashOrders)
    /\ \E i \in 1..Len(orders) : orders[i].id = settled.id /\ orders[i].status = "Pending"
    /\ pendingCount = 1
    /\ pendingMatched # {}
    /\ settled.id \notin pendingMatched

\* The texts of the success notifications of the Orders page.
SuccessToasts == {"Status updated", "Order deleted", "PDF downloaded"}

\* The backend has answered a write of this session with an error in this
\* step.
WriteFailed == Len(requests') < Len(requests) /\ ~settled'.ok

\* What a failed write leaves alone: the order snapshot, the filter, sort
\* and page state, the notification on the screen, the validity of the
\* cached order list (no re-fetch is asked for), and the request is gone
\* from the in-flight set (no retry).
FailedWriteKeepsState ==
    [][ WriteFailed =>
          /\ orders' = orders
          /\ <<search', statusFilter', dateFilter'>> = <<search, statusFilter, dateFilter>>
          /\ <<sortField', sortDir', page'>> = <<sortField, sortDir, page>>
          /\ toast' = toast
          /\ ordersInvalidated' = ordersInvalidated
          /\ Len(requests') = Len(requests) - 1
          /\ store' = store ]_vars

\* C13: when the backend answers a status update or a delete with an error,
\* a failure notification is on the screen, the order snapshot and the
\* filter, sort and page state are unchanged, no re-fetch is triggered and
\* the request is not sent again.
C13_FailureNotified ==
    [][ WriteFailed =>
          /\ toast' \notin SuccessToasts \cup {""}
          /\ orders' = orders
          /\ <<search', statusFilter', dateFilter'>> = <<search, statusFilter, dateFilter>>
          /\ <<sortField', sortDir', page'>> = <<sortField, sortDir, page>>
          /\ ordersInvalidated' = ordersInvalidated
          /\ Len(requests') = Len(requests) - 1 ]_vars

\* Everything but the open dialog is as it was.
OnlyDialogChanged ==
    UNCHANGED <<store, view, orders, search, statusFilter, dateFilter, sortField,
                sortDir, page, filtered, totalPages, paginated, ordersInvalidated,
                emailVars, dashVars, renders, restVars>>

\* The delete requests of this session that are in flight, as ids.
DeletesInFlight == SelectSeq(requests, LAMBDA r : r.from = "self" /\ r.kind = "delete")

\* C16: a delete request is sent only by a step taken with the dialog of an
\* order open, it is one request for the id of that order, and the dialog
\* closes; opening a dialog changes nothing else, it opens on a row of the
\* page, and closing it without a request, on the same rows, changes nothing
\* else either.
C16_DeleteConfirmed ==
    [][ /\ Len(DeletesInFlight') > Len(DeletesInFlight) =>
             /\ dialog # 0
             /\ dialog' = 0
             /\ requests' = Append(requests, [from |-> "self", kind |-> "delete",
                                              id |-> dialog, status |-> ""])
             /\ UNCHANGED <<store, settled, toast, orders, paginated>>
        /\ (dialog = 0 /\ dialog' # 0) =>
             /\ dialog' \in SeqIds(paginated)
             /\ OnlyDialogChanged
        /\ (dialog # 0 /\ dialog' = 0 /\ requests' = requests
               /\ view' = view /\ orders' = orders) =>
             OnlyDialogChanged ]_vars

\* The dialog of order 1, the second row of the page, was confirmed: the
\* dialog is closed, one delete request, for order 1, is in flight, no
\* answer has come and both rows are still in the table.
C16_Witness ==
    /\ view = "orders"
    /\ dialog = 0
    /\ Len(requests) = 1
    /\ requests[1].kind = "delete"
    /\ requests[1].id = 1
    /\ Len(paginated) = 2
    /\ paginated[1].id # 1
    /\ Ids(store) = {1, 3}
    /\ settled = NoAnswer

\* This step is the read of the order list that follows a status update
\* the backend reported as successful, with no write answered since.
ReadAfterUpdate ==
    ordersInvalidated /\ ~ordersInvalidated' /\ settled.kind = "update" /\ settled.ok

\* The order list arr holds order id with status s.
Shows(arr, id, s) == \E i \in 1..Len(arr) : arr[i].id = id /\ arr[i].status = s

\* C17 as stated: the read that follows a successful status update of an
\* order of the snapshot returns the order with the status asked for.
C17_UpdateThenRead ==
    [][ ReadAfterUpdate => Shows(orders', settled.id, settled.status) ]_vars

\* C17, amended: the read that follows a successful status update, with no
\* later write, returns the order with the status asked for when the order
\* was still in the table as the update was applied, whatever its status
\* was; an update of an order deleted before is reported as successful too
\* and the read returns no such order.
C17_UpdateOfStoredOrder ==
    [][ /\ ReadAfterUpdate =>
             IF settled.id \in Ids(store)
             THEN Shows(orders', settled.id, settled.status)
             ELSE settled.id \notin SeqIds(orders')
        /\ (Len(requests') < Len(requests) /\ settled'.kind = "update" /\ settled'.ok
               /\ settled'.id \in Ids(store)) =>
             \E r \in store' : r.id = settled'.id /\ r.status = settled'.status ]_vars

\* An order that had left the Pending status was set back to Pending, the
\* update succeeded, and the list read since shows it as Pending.
C17_Witness ==
    /\ settled.kind = "update" /\ settled.ok
    /\ settled.status = "Pending"
    /\ ~ordersInvalidated
    /\ toast = "Status updated"
    /\ Shows(orders, settled.id, "Pending")
    /\ requests = << >>

\* Request i is answered in this step, with success.
AnsweredOk(i) ==
    /\ requests' = Remove(requests, i)
    /\ requests[i].from = "self" => settled'.ok
    /\ requests[i].from = "peer" => response'.error = ""

\* The table rows with the status of order id replaced by s.
WithStatus(rows, id, s) ==
    { IF r.id = id THEN [r EXCEPT !.status = s] ELSE r : r \in rows }

\* C18: every status update the store applies, of either session and in
\* any interleaving, leaves the table as it was but for the status of the
\* one order, which is the status of the update just applied; nothing else
\* changes the table.
C18_LastAppliedWins ==
    [][ /\ \A i \in 1..Len(requests) :
              (AnsweredOk(i) /\ requests[i].kind = "update") =>
                 store' = WithStatus(store, requests[i].id, requests[i].status)
        /\ Len(requests') >= Len(requests) => store' = store ]_vars

\* Both sessions have had an update of order 1 applied; the other session
\* chose its value on a snapshot that still showed the order as Pending,
\* its update was applied last, and order 3 is as it was.
C18_Witness ==
    /\ settled = [kind |-> "update", id |-> 1, status |-> "Completed", ok |-> TRUE]
    /\ response.caller = Peer /\ response.id = 1 /\ response.error = ""
    /\ Shows(peerOrders, 1, "Pending")
    /\ \E r \in store : r.id = 1 /\ r.status = "Cancelled"
    /\ { r \in store : r.id = 3 } = { r \in StartOrders : r.id = 3 }
    /\ requests = << >>

\* C19: after any sequence of status updates and deletes every order of
\* the table has one of the four statuses and one of the three time slots,
\* and is the row that was stored at first in every field but the status.
C19_OrderTypes ==
    \A o \in store :
       /\ o.status \in OrderStatus
       /\ o.time_slot \in TimeSlot
       /\ \E s \in StartOrders : s.id = o.id /\ [o EXCEPT !.status = s.status] = s

\* The order that was stored as Pending has been updated, last to Picked
\* Up, and a delete of it has been confirmed since.
C19_Witness ==
    /\ \E o \in store : o.id = 1 /\ o.status = "Picked Up"
    /\ settled.kind = "update" /\ settled.ok /\ settled.status = "Picked Up"
    /\ Len(requests) = 1
    /\ requests[1].kind = "delete"

\* C20: a step that changes the search text, the status filter or the
\* pickup date filter leaves the page index at 0 and the sort field and
\* direction as they were.
C20_FilterResetsPage ==
    [][ (search' # search \/ statusFilter' # statusFilter \/ dateFilter' # dateFilter) =>
          /\ page' = 0
          /\ sortField' = sortField
          /\ sortDir' = sortDir ]_vars

\* A search text is set on a table sorted by name, ascending; the first
\* of the two pages of matching rows is shown.
C20_Witness ==
    /\ search # << >>
    /\ Len(filtered) < Len(orders)
    /\ sortField = "customer_name" /\ sortDir = "asc"
    /\ page = 0
    /\ totalPages = 2
    /\ Len(paginated) = PAGE_SIZE

\* The other direction.
Flipped(dir) == IF dir = "asc" THEN "desc" ELSE "asc"

\* C21: a step that changes the sort state either keeps the field and
\* flips the direction, or sets another field with the direction
\* descending, whatever the direction was; and in every state two toggles
\* of the current field lead back to the current field and direction.
C21_ToggleSort ==
    /\ [][ <<sortField', sortDir'>> # <<sortField, sortDir>> =>
              \/ sortField' = sortField /\ sortDir' = Flipped(sortDir)
              \/ sortField' # sortField /\ sortDir' = "desc" ]_vars
    /\ [](LET once == toggleSort(sortField, sortField, sortDir)
          IN /\ once = <<sortField, Flipped(sortDir)>>
             /\ toggleSort(sortField, once[1], once[2]) = <<sortField, sortDir>>)

\* The name column was chosen and then toggled: ascending by name.
C21_Witness ==
    /\ sortField = "customer_name"
    /\ sortDir = "asc"
    /\ Len(filtered) > 1

\* The search text as typed occurs in the phone number, or its case-folded
\* form occurs in the case-folded name or e-mail.
SearchHitAsTyped(o) ==
    \/ includes(toLowerCase(o.customer_name), toLowerCase(search))
    \/ includes(toLowerCase(o.email), toLowerCase(search))
    \/ includes(o.phone_number, search)

\* C22: an order of the snapshot that passes the status and date filters
\* is in the filtered array iff the search text is empty, or the
\* case-folded name or e-mail contains the case-folded text, or the phone
\* number contains the text exactly as typed.
C22_SearchAsTyped ==
    \A o \in Range(orders) :
       (matchesStatus(o, statusFilter) /\ matchesDate(o, dateFilter)) =>
          (o \in Range(filtered) <=> (search = << >> \/ SearchHitAsTyped(o)))

\* A request is sent in this step; the backend answers one in this step.
RequestSent == Len(requests') > Len(requests)
ResponseArrived == Len(requests') < Len(requests)

\* C26: a status update or a confirmed delete sends exactly one request and
\* triggers no re-fetch by itself; a response answers exactly one request;
\* the order list and the pending count are marked for a re-fetch by a
\* response that reports success, by every such response, and by nothing
\* else.
C26_MutationProtocol ==
    [][ /\ RequestSent =>
             /\ Len(requests') = Len(requests) + 1
             /\ SubSeq(requests', 1, Len(requests)) = requests
             /\ UNCHANGED <<store, settled, ordersInvalidated, badgeInvalidated>>
        /\ ResponseArrived =>
             /\ \E i \in 1..Len(requests) :
                   /\ requests' = Remove(requests, i)
                   /\ settled'.kind = requests[i].kind /\ settled'.id = requests[i].id
             /\ settled'.ok => ordersInvalidated' /\ badgeInvalidated'
             /\ ~settled'.ok => UNCHANGED <<store, ordersInvalidated, badgeInvalidated>>
        /\ (~ordersInvalidated /\ ordersInvalidated') => ResponseArrived /\ settled'.ok
        /\ (~badgeInvalidated /\ badgeInvalidated') => ResponseArrived /\ settled'.ok ]_vars

\* A delete was answered with success after the list had been read: both
\* queries are marked, nothing is in flight and the order is gone from the
\* table while the list on the screen still shows it.
C26_Witness ==
    /\ settled.kind = "delete" /\ settled.ok
    /\ ordersInvalidated /\ badgeInvalidated
    /\ requests = << >>
    /\ settled.id \notin Ids(store)
    /\ settled.id \in SeqIds(orders)

\* C28: in every state of the Orders view the filtered set is empty or the
\* page index addresses one of its rows (page * 10 < its size), so the page
\* shown of a non-empty filtered set is never empty.
C28_PageInRange ==
    view = "orders" =>
        \/ filtered = << >>
        \/ /\ page * PAGE_SIZE < Len(filtered)
           /\ paginated # << >>

\* The effect of the mount has read the URL in this step.
ParamsRead == searchParams' # searchParams

\* The rest of the Orders page's state is as useState initialised it.
OtherDefaults(text, field, dir, p) ==
    text = << >> /\ field = "created_at" /\ dir = "desc" /\ p = 0

\* What the effect of the mount does with the query string of the URL.
UrlParamsApplied ==
    [][ /\ ParamsRead =>
             /\ statusFilter' = (IF searchParams.status # "" THEN searchParams.status
                                 ELSE "all")
             /\ dateFilter' = (IF searchParams.pickupDate # << >>
                               THEN searchParams.pickupDate ELSE << >>)
             /\ OtherDefaults(search', sortField', sortDir', page')
             /\ searchParams' = NoParams
        /\ (searchParams = NoParams) => searchParams' = NoParams ]_vars

\* C30: on mount a status parameter that is present becomes the status
\* filter and a pickupDate parameter that is present becomes the date
\* filter, page, search and sort keep their defaults and the query string is
\* emptied; without either parameter the URL is left alone; and the status
\* filter is always "all" or one of the four values of the status enum.
C30_UrlParams ==
    /\ UrlParamsApplied
    /\ [](statusFilter \in {"all"} \cup OrderStatus)

-----------------------------------------------------------------------------
(* Properties of the export adapters. *)

\* The document was written in this step.
Exported == document' # document

\* The body of the document d lists the rows of arr in order, cell by cell.
BodyLists(d, arr) ==
    /\ Len(d.body) = Len(arr)
    /\ \A i \in 1..Len(arr) :
          /\ Len(d.body[i]) = 7
          /\ d.body[i][1] = arr[i].customer_name
          /\ d.body[i][2] = arr[i].email
          /\ d.body[i][3] = arr[i].phone_number
          /\ d.body[i][4] = arr[i].pickup_date
          /\ d.body[i][5] = arr[i].time_slot
          /\ d.body[i][6] = arr[i].status
          /\ d.body[i][7] = formatMMMdyyyy(getTime(arr[i].created_at), tz)

-----------------------------------------------------------------------------
(* Properties of the backend's authorization. *)

\* The identities that hold the admin role grant.
Admins == { uid \in Identities : <<uid, "admin">> \in user_roles }

\* The backend has answered a call of an identity without the admin grant.
NonAdminAnswered == response.op # "none" /\ response.caller \notin Admins

\* The answer of this step reports the effect the call of an administrator
\* has on the table.
AdminEffect ==
    /\ response'.error = ""
    /\ response'.op = "list" =>
          /\ Range(response'.data) = store
          /\ Len(response'.data) = Cardinality(store)
          /\ store' = store
    /\ response'.op = "insert" =>
          /\ response'.id \in Ids(store') \ Ids(store)
          /\ store \subseteq store'
    /\ response'.op = "update" =>
          /\ Ids(store') = Ids(store)
          /\ \A r \in store' : r.id = response'.id => r.status = "Completed"
          /\ \A r \in store' : r.id # response'.id => r \in store
    /\ response'.op = "delete" =>
          /\ store' = { r \in store : r.id # response'.id }

\* C15 as stated: every call of an identity without the admin grant is
\* answered with an authorization error and without data, and leaves the
\* table unchanged; a call of an administrator takes effect.
C15_NonAdminGetsError ==
    /\ [](NonAdminAnswered => response.error # "" /\ response.data = << >>)
    /\ [][ /\ response'.caller \notin Admins => store' = store
           /\ (response' # response /\ response'.caller \in Admins) => AdminEffect ]_vars

\* C15, amended: a call of an identity without the admin grant returns no
\* order data, its answer depends on the operation only and not on the
\* table, and it leaves the table unchanged; only an insert is answered
\* with an authorization error, while a list answers with an empty result
\* and an update or delete with success on no row.  A call of an
\* administrator takes effect.
C15_NonAdminGetsNothing ==
    /\ [](NonAdminAnswered =>
            /\ response.data = << >>
            /\ response.error = (IF response.op = "insert" THEN InsufficientPrivilege ELSE ""))
    /\ [][ /\ response'.caller \notin Admins => store' = store
           /\ (response' # response /\ response'.caller \in Admins) => AdminEffect ]_vars

\* An identity whose only grant is the moderator role has listed a table
\* of two rows and got an empty result without an error.
C15_Witness ==
    /\ response.op = "list"
    /\ response.caller = "bob"
    /\ Cardinality(store) = 2
    /\ response.data = << >>
    /\ response.error = ""

-----------------------------------------------------------------------------
(* Properties of the login page. *)

\* handleSubmit starts in this step; a call of handleSubmit is answered.
SubmitStarted == Len(authCalls') > Len(authCalls)
AuthAnswered == authAnswer' # authAnswer \/ Len(authCalls') < Len(authCalls)

\* The answer of this step is handled by the login branch of a mounted form.
LoginAnswered ==
    /\ AuthAnswered
    /\ authAnswer'.kind = "signIn"
    /\ authAnswer'.live

\* C27: a submit in login mode first clears the error message and sets
\* loading; when signIn answers without an error the browser is sent to the
\* dashboard, when it answers with an error that message is shown and the
\* route stays; either way loading is false afterwards; and the login page
\* is left for the dashboard by nothing but a signIn that returned no error.
C27_LoginSubmit ==
    [][ /\ (SubmitStarted /\ ~loginForm.isSignup) =>
             /\ loginForm'.error = ""
             /\ loginForm'.loading
             /\ authCalls'[Len(authCalls')].kind = "signIn"
             /\ route' = route
        /\ LoginAnswered =>
             /\ ~loginForm'.loading
             /\ (authAnswer'.error = "") => route' = "dashboard"
             /\ (authAnswer'.error # "") =>
                   /\ loginForm'.error = authAnswer'.error
                   /\ route' = route
        /\ (route = "login" /\ route' = "dashboard") =>
             /\ AuthAnswered
             /\ authAnswer'.kind \in {"signIn", "autoSignIn"}
             /\ authAnswer'.error = "" ]_vars

\* A login was refused: its message is on the form, the button is enabled
\* again and the browser is still on the login page.
C27_Witness ==
    /\ route = "login"
    /\ authAnswer.kind = "signIn" /\ authAnswer.live
    /\ authAnswer.error = "Invalid login credentials"
    /\ loginForm.error = authAnswer.error
    /\ ~loginForm.loading /\ ~loginForm.isSignup
    /\ authCalls = << >>

\* The calls in flight that a signup submit of the mounted form has sent:
\* its signUp, or the signIn that follows it.
SignupCalls(calls) ==
    { i \in 1..Len(calls) :
        calls[i].live /\ calls[i].kind \in {"signUp", "autoSignIn"} }

\* C29: while the signUp of a signup submit or the signIn that follows it is
\* in flight, loading is true (the submit button is disabled), and no submit
\* starts while such a call is in flight.
C29_SignupNotReentrant ==
    [][ /\ (SignupCalls(authCalls') # {}) => loginForm'.loading
        /\ SubmitStarted => SignupCalls(authCalls) = {} ]_vars

-----------------------------------------------------------------------------
(* Properties of the layout. *)

\* Something of a protected page is on the screen.
ContentShown ==
    \/ view \in ProtectedRoutes
    \/ paginated # << >> \/ filtered # << >>
    \/ customers # << >> \/ custFiltered # << >>
    \/ dashboard # << >>

\* C12: while AdminLayout is mounted it shows the spinner while loading,
\* redirects to /admin/login when loading is over and there is no user or
\* the user is no admin, and shows the protected content only when loading
\* is over for a user who is admin; nothing of a protected page is shown in
\* any other state.
C12_RouteGuard ==
    /\ layout # "unmounted" =>
          /\ loading => layout = "spinner"
          /\ (~loading /\ user = "") => layout = "/admin/login"
          /\ (~loading /\ user # "" /\ ~isAdmin) => layout = "/admin/login"
          /\ layout = "content" => (~loading /\ user # "" /\ isAdmin)
    /\ ContentShown => (layout = "content" /\ ~loading /\ user # "" /\ isAdmin)

\* A signed-in user without the admin role is on a route of the layout,
\* the orders are in the query cache from an administrator's visit, and
\* the layout redirects.
C12_Witness ==
    /\ route \in ProtectedRoutes
    /\ ~loading /\ user # "" /\ ~isAdmin
    /\ ~has_role(user, "admin")
    /\ layout = "/admin/login"
    /\ orders # << >>

=============================================================================
